---------------------------- MODULE Spec2Model ----------------------------
(***************************************************************************)
(* Token normalization pipelines of src/helpers.py (city, country,        *)
(* generic list, skills, extended skills), with the helpers they share:   *)
(* replace_series, replace_if_startswith and squeeze_series, the date     *)
(* normalization normalize_date / get_date_by_format, and the driver      *)
(* clean_all that runs the table cleaners.                                *)
(*                                                                         *)
(* A Python string is a tuple of one-character strings, so that splitting,*)
(* trimming, case folding and prefix tests are computed and not assumed.  *)
(* A pandas Series is a sequence of rows [index, value], in row order.    *)
(***************************************************************************)
EXTENDS Integers, Sequences, FiniteSets, TLC

VARIABLES
  call,   \* the last call made: function name and its arguments
  out,    \* what that call produced: a Series, a scalar, or the exception raised
  heap,   \* the caller's objects handed to the call, as they are after it
  first_out,  \* the token sets the first of two invocations on the same objects gave
  pc,         \* the statement of clean_all that runs next, 0 outside clean_all
  running,    \* the table cleaner in progress, "none" when there is none
  log         \* the cleaners started and finished by the clean_all call, in order

vars == <<call, out, heap, first_out, pc, running, log>>

---------------------------------------------------------------------------
(* Values of a cell *)

\* np.nan / None: the missing value of a cell
NaN == <<"NaN">>

\* a cell holding a number instead of text
Num == <<"Num">>

\* the empty Python string ""
EmptyStr == <<>>

\* isinstance(x, str)
IsStr(x) == x # NaN /\ x # Num

\* characters str.strip() removes (space and the no-break space "\xa0")
Whitespace == {" ", "nbsp"}

LowerLetters ==
  <<"a","b","c","d","e","f","g","h","i","j","k","l","m",
    "n","o","p","q","r","s","t","u","v","w","x","y","z">>

UpperLetters ==
  <<"A","B","C","D","E","F","G","H","I","J","K","L","M",
    "N","O","P","Q","R","S","T","U","V","W","X","Y","Z">>

\* str.upper() on one character
UpperChar(c) ==
  IF \E i \in DOMAIN LowerLetters : LowerLetters[i] = c
  THEN UpperLetters[CHOOSE i \in DOMAIN LowerLetters : LowerLetters[i] = c]
  ELSE c

\* str.upper()
Upper(x) == [i \in DOMAIN x |-> UpperChar(x[i])]

\* str.lstrip()
RECURSIVE LStrip(_)
LStrip(x) ==
  IF x # <<>> /\ Head(x) \in Whitespace THEN LStrip(Tail(x)) ELSE x

\* str.rstrip()
RECURSIVE RStrip(_)
RStrip(x) ==
  IF x # <<>> /\ x[Len(x)] \in Whitespace
  THEN RStrip(SubSeq(x, 1, Len(x) - 1))
  ELSE x

\* str.strip()
Strip(x) == RStrip(LStrip(x))

\* re.split / str.split on a delimiter class: the pieces between delimiters,
\* empty pieces included (n delimiters give n + 1 pieces)
RECURSIVE SplitFrom(_, _, _)
SplitFrom(x, delims, piece) ==
  IF x = <<>> THEN <<piece>>
  ELSE IF Head(x) \in delims
       THEN <<piece>> \o SplitFrom(Tail(x), delims, <<>>)
       ELSE SplitFrom(Tail(x), delims, Append(piece, Head(x)))

Split(x, delims) == SplitFrom(x, delims, <<>>)

\* re.sub("[...]", "", x): every character of the class is deleted
RemoveChars(x, chars) == SelectSeq(x, LAMBDA c : c \notin chars)

\* str.startswith
StartsWith(x, pattern) ==
  Len(pattern) <= Len(x) /\ SubSeq(x, 1, Len(pattern)) = pattern

\* sep.join(tokens)
RECURSIVE Join(_, _)
Join(tokens, sep) ==
  IF tokens = <<>> THEN <<>>
  ELSE IF Len(tokens) = 1 THEN tokens[1]
  ELSE tokens[1] \o sep \o Join(Tail(tokens), sep)

\* every order in which the elements of a set can be iterated
RECURSIVE Orders(_)
Orders(S) ==
  IF S = {} THEN {<<>>}
  ELSE UNION {{<<e>> \o p : p \in Orders(S \ {e})} : e \in S}

---------------------------------------------------------------------------
(* Series operations *)

Row(i, v) == [index |-> i, value |-> v]

\* Series.str.strip(): the method on strings, NaN on everything else
str_strip(s) ==
  [i \in DOMAIN s |-> Row(s[i].index, IF IsStr(s[i].value) THEN Strip(s[i].value) ELSE NaN)]

\* Series.str.upper(): the method on strings, NaN on everything else
str_upper(s) ==
  [i \in DOMAIN s |-> Row(s[i].index, IF IsStr(s[i].value) THEN Upper(s[i].value) ELSE NaN)]

\* Series.str.split(pat).explode(): one row per piece, each keeping the index
\* of the row it comes from; a non-string cell gives one NaN row
RECURSIVE str_split_explode(_, _)
str_split_explode(s, delims) ==
  IF s = <<>> THEN <<>>
  ELSE LET r == Head(s)
           pieces == IF IsStr(r.value) THEN Split(r.value, delims) ELSE <<NaN>>
       IN [k \in DOMAIN pieces |-> Row(r.index, pieces[k])]
          \o str_split_explode(Tail(s), delims)

\* Series.replace(pattern, "", regex=True) for a character-class pattern
replace_regex(s, chars) ==
  [i \in DOMAIN s |->
     IF IsStr(s[i].value) THEN Row(s[i].index, RemoveChars(s[i].value, chars)) ELSE s[i]]

\* Series.replace with regex=True in place of regex=False: a member of the list
\* is searched at the start of the element and not compared with all of it
replace_value_regex(x, to_replace, value) ==
  IF IsStr(x) /\ \E k \in DOMAIN to_replace : StartsWith(x, to_replace[k])
  THEN value
  ELSE x

\* Series.replace(to_replace, value, regex=False) on one element, for a list
\* to_replace: an element equal to a member of the list becomes value
replace_value(x, to_replace, value) ==
  IF \E k \in DOMAIN to_replace : to_replace[k] = x THEN value ELSE x

\* Series.replace(to_replace, value, regex=False) on the Series
replace_list(s, to_replace, value) ==
  [i \in DOMAIN s |-> Row(s[i].index, replace_value(s[i].value, to_replace, value))]

\* the .str accessor exists on object columns whose values are not all numbers
StrAccessorOK(col) ==
  /\ col.dtype = "object"
  /\ \/ \A i \in DOMAIN col.rows : col.rows[i].value # Num
     \/ \E i \in DOMAIN col.rows : IsStr(col.rows[i].value)

\* results of a call
Series(rows) == [kind |-> "Series", rows |-> rows]

AttributeError == [kind |-> "AttributeError", rows |-> <<>>]

---------------------------------------------------------------------------
(* Rule tables *)

\* replacement_mapping of normalize_city_series (replace_by : to_replace)
city_replacement_mapping ==
  <<
    [replace_by |-> <<"B","A","R","C","E","L","O","N","A">>,
     to_replace |-> <<<<"B","A","R","C","E","L","L","O","N","A">>>>],
    [replace_by |-> <<"D","U","B","L","I","N">>,
     to_replace |-> <<<<"D","U","B","L","I","N","O">>>>],
    [replace_by |-> <<"E","U","R","O","P","E">>,
     to_replace |-> <<<<"E","U">>,
                     <<"E","U","R","O","P","E","R","O","P","E">>>>],
    [replace_by |-> <<"F","L","O","R","E","N","C","E">>,
     to_replace |-> <<<<"F","I","R","E","N","Z","E">>>>],
    [replace_by |-> <<"G","E","N","O","A">>,
     to_replace |-> <<<<"G","E","N","O","V","A">>>>],
    [replace_by |-> <<"G","E","N","E","V","E">>,
     to_replace |-> <<<<"G","I","N","E","V","R","A">>>>],
    [replace_by |-> <<"I","T","A","L","Y">>,
     to_replace |-> <<<<"I","T","A","L","Y"," ","M","U","L","T","I","P","L","E"," ","L","O","C","A","T","I","O","N">>>>],
    [replace_by |-> <<"R","E","M","O","T","E">>,
     to_replace |-> <<<<"A","N","C","H","E"," ","R","E","M","O","T","O">>,
                     <<"F","U","L","L"," ","R","E","M","O","T","E">>>>],
    [replace_by |-> <<"L","O","N","D","O","N">>,
     to_replace |-> <<<<"L","O","N","D","A","N">>,
                     <<"L","O","N","D","R","A">>>>],
    [replace_by |-> <<"L","A","U","S","S","A","N","E">>,
     to_replace |-> <<<<"L","O","S","A","N","N","A">>>>],
    [replace_by |-> <<"L","U","X","E","M","B","O","U","R","G">>,
     to_replace |-> <<<<"L","U","S","S","E","M","B","U","R","G","O">>>>],
    [replace_by |-> <<"M","I","L","A","N">>,
     to_replace |-> <<<<"M","I">>,
                     <<"M","I","L","A","N","O">>,
                     <<"M","I","L","A","N","O"," ","R","O","Z","Z","A","N","O">>,
                     <<"M","I","L","A","N","O"," ","O","R"," ","R","E","M","O","T","E">>>>],
    [replace_by |-> <<"S","W","I","T","Z","E","R","L","A","N","D">>,
     to_replace |-> <<<<"C","H">>>>]
  >>

\* replacement_mapping of normalize_country_series
country_replacement_mapping ==
  <<
    [replace_by |-> <<"I","T">>,
     to_replace |-> <<<<"I","T","A","L","Y">>,
                     <<"I","T","A","L","I","A">>,
                     <<"I","T","A","L","T">>,
                     <<"I","T","A","L","Y">>,
                     <<"I","T","L","A","Y">>,
                     <<"backtick","I","T","A","L","Y">>,
                     <<"I","T","A","L","I","A"," ","O"," ","S","V","I","Z","Z","E","R","A">>,
                     <<"I","R","A","L","T">>,
                     <<"M","I","L","A","N">>,
                     <<"R","O","M","A">>,
                     <<"V","E","N","E","T","O">>>>],
    [replace_by |-> <<"A","R">>,
     to_replace |-> <<<<"A","R","G","E","N","T","I","N","A">>>>],
    [replace_by |-> <<"A","U">>,
     to_replace |-> <<<<"A","U","S","T","R","A","L","I","A">>>>],
    [replace_by |-> <<"B","E">>,
     to_replace |-> <<<<"B","E","L","G","I","O">>>>],
    [replace_by |-> <<"F","R">>,
     to_replace |-> <<<<"F","R","A","N","C","E">>>>],
    [replace_by |-> <<"D","E">>,
     to_replace |-> <<<<"G","E","R","M","A","N","Y">>>>],
    [replace_by |-> <<"H","U">>,
     to_replace |-> <<<<"H","U","N","G","A","R","Y">>>>],
    [replace_by |-> <<"I","E">>,
     to_replace |-> <<<<"I","R","E","L","A","N","D">>>>],
    [replace_by |-> <<"I","L">>,
     to_replace |-> <<<<"I","S","R","A","E","L">>>>],
    [replace_by |-> <<"J","P">>,
     to_replace |-> <<<<"J","O">>>>],
    [replace_by |-> <<"G","B">>,
     to_replace |-> <<<<"L","O","N","D","O","N">>,
                     <<"S","C","O","Z","I","A">>,
                     <<"U","K">>,
                     <<"U","N","I","T","E","D"," ","K","I","N","G","D","O","M">>>>],
    [replace_by |-> <<"U","S">>,
     to_replace |-> <<<<"U","S","A">>>>],
    [replace_by |-> <<"L","U">>,
     to_replace |-> <<<<"L","U","X","E","M","B","O","U","R","G">>>>],
    [replace_by |-> <<"M","T">>,
     to_replace |-> <<<<"M","A","L","T","A">>>>],
    [replace_by |-> <<"M","D">>,
     to_replace |-> <<<<"M","O","L","D","O","V","A">>>>],
    [replace_by |-> <<"N","O">>,
     to_replace |-> <<<<"N","O","R","W","A","Y">>>>],
    [replace_by |-> <<"P","L">>,
     to_replace |-> <<<<"P","O","L","A","N","D">>>>],
    [replace_by |-> <<"R","S">>,
     to_replace |-> <<<<"S","E","R","B","I","A">>>>],
    [replace_by |-> <<"S","K">>,
     to_replace |-> <<<<"S","L","O","V","A","C","C","H","I","A">>>>],
    [replace_by |-> <<"E","S">>,
     to_replace |-> <<<<"S","P","A","I","N">>>>],
    [replace_by |-> <<"C","H">>,
     to_replace |-> <<<<"S","V","I","Z","Z","E","R","A">>,
                     <<"S","W","I","T","Z","E","R","L","A","N","D">>>>],
    [replace_by |-> <<"S","E">>,
     to_replace |-> <<<<"S","W","E","D","E","N">>>>],
    [replace_by |-> <<"T","R">>,
     to_replace |-> <<<<"T","U","R","K","E","Y">>>>],
    [replace_by |-> <<"U","A">>,
     to_replace |-> <<<<"U","K","R","A","I","N","E">>>>]
  >>

\* replacement_mapping of normalize_skills_series
skills_replacement_mapping ==
  <<
    [replace_by |-> <<"B","I","G"," ","D","A","T","A">>,
     to_replace |-> <<<<"B","I","G","D","A","T","A">>>>],
    [replace_by |-> <<"S","P","A","R","K">>,
     to_replace |-> <<<<"A","P","A","C","H","E"," ","S","P","A","R","K">>,
                     <<"S","P","A","R","Q","L">>>>],
    [replace_by |-> <<"A","R","T","I","F","I","C","I","A","L"," ","I","N","T","E","L","L","I","G","E","N","C","E">>,
     to_replace |-> <<<<"A","I">>>>],
    [replace_by |-> <<"A","Z","U","R","E">>,
     to_replace |-> <<<<"A","Z","U","R","E"," ","A","D">>,
                     <<"A","Z","U","R","E"," ","P","L","A","T","F","O","R","M">>>>],
    [replace_by |-> <<"B","A","S","H">>,
     to_replace |-> <<<<"B","A","S","H"," ","S","C","R","I","P","T","I","N","G">>>>],
    [replace_by |-> <<"D","A","T","A"," ","S","C","I","E","N","C","E">>,
     to_replace |-> <<<<"D","A","T","A"," ","S","C","I","E","N","T","I","S","T">>>>],
    [replace_by |-> <<"D","A","T","A"," ","V","I","S","U","A","L","I","Z","A","T","I","O","N">>,
     to_replace |-> <<<<"D","A","T","A"," ","V","I","S","U","A","L","I","S","A","T","I","O","N">>>>],
    [replace_by |-> <<"B","U","S","I","N","E","S","S"," ","A","N","A","L","Y","S","I","S">>,
     to_replace |-> <<<<"B","U","S","I","N","E","S","S"," ","A","N","A","L","Y","S","T">>>>],
    [replace_by |-> <<"B","U","S","I","N","E","S","S"," ","I","N","T","E","L","L","I","G","E","N","C","E">>,
     to_replace |-> <<<<"B","I"," ","M","I","C","R","O","S","O","F","T">>,
                     <<"B","I">>>>],
    [replace_by |-> <<"C","O","N","F","I","G","U","R","A","T","I","O","N">>,
     to_replace |-> <<<<"C","O","N","F","I","G","U","R","A","T","I","O","N"," ","A","N","D"," ","M","O","N","I","T","O","R","I","N","G">>>>],
    [replace_by |-> <<"S","W"," ","D","E","V","E","L","O","P","M","E","N","T">>,
     to_replace |-> <<<<"D","E","V","E","L","O","P","E","R","S">>,
                     <<"D","E","V","E","L","O","P","E","R">>,
                     <<"E","N","G","I","N","E","E","R","I","N","G"," ","A","N","D"," ","S","O","F","T","W","A","R","E"," ","A","R","C","H","I","T","E","C","T","U","R","E"," ","D","E","S","I","G","N">>>>],
    [replace_by |-> <<"D","I","G","I","T","A","L"," ","I","N","T","E","L","L","I","G","E","N","C","E">>,
     to_replace |-> <<<<"D","I">>>>],
    [replace_by |-> <<"F","I","N","T","E","C","H">>,
     to_replace |-> <<<<"F","I","N","T","E","C","H"," ","A","N","A","L","Y","S","I","S">>>>],
    [replace_by |-> <<"H","T","M","L">>,
     to_replace |-> <<<<"H","T","M","L","5">>>>],
    [replace_by |-> <<"J","S","O","N">>,
     to_replace |-> <<<<"J","S","O","N"," ","L","I","B","R","A","R","I","E","S">>>>],
    [replace_by |-> <<"L","E","A","D">>,
     to_replace |-> <<<<"L","E","A","D","E","R","S","H","I","P"," ","A","N","D"," ","C","O","L","L","A","B","O","R","A","T","I","O","N">>,
                     <<"T","E","A","M"," ","L","E","A","D","E","R">>,
                     <<"T","E","A","M"," ","M","A","N","A","G","E","M","E","N","T">>,
                     <<"T","E","C","H","N","I","C","A","L"," ","L","E","A","D">>>>],
    [replace_by |-> <<"M","A","R","K","E","T","I","N","G">>,
     to_replace |-> <<<<"M","A","R","K","E","T","O">>>>],
    [replace_by |-> <<"D","A","T","A">>,
     to_replace |-> <<<<"M","A","S","T","E","R"," ","D","A","T","A">>,
                     <<"D","A","T","A"," ","O","F","F","I","C","E","R">>,
                     <<"D","A","T","A"," ","R","O","A","D","M","A","P">>>>],
    [replace_by |-> <<"D","A","T","A"," ","M","A","N","A","G","E","M","E","N","T">>,
     to_replace |-> <<<<"M","A","S","T","E","R"," ","D","A","T","A"," ","M","A","N","A","G","E","M","E","N","T">>,
                     <<"D","A","T","A"," ","M","A","N","A","G","E","R">>>>],
    [replace_by |-> <<"P","Y","T","H","O","N">>,
     to_replace |-> <<<<"P","H","Y","T","O","N">>,
                     <<"P","Y","T","H","O","N","I">>,
                     <<"S","K","I","L","L","S",":","nbsp","P","Y","T","H","O","N">>>>],
    [replace_by |-> <<"Q","L","I","K">>,
     to_replace |-> <<<<"Q","L","I","K","V","I","E","W">>>>],
    [replace_by |-> <<"P","R","E","D","I","C","T","I","V","E"," ","A","N","A","L","Y","S","I","S">>,
     to_replace |-> <<<<"P","R","E","D","I","C","T","I","V","E">>>>],
    [replace_by |-> <<"N","O","S","Q","L">>,
     to_replace |-> <<<<"R","E","D","I","S"," ","A","N","D"," ","O","T","H","E","R"," ","N","O","S","Q","L"," ","D","A","T","A"," ","B","A","S","E">>>>],
    [replace_by |-> <<"P","R","O","J","E","C","T"," ","M","A","N","A","G","E","M","E","N","T">>,
     to_replace |-> <<<<"P","R","O","J","E","C","T"," ","M","A","N","A","G","E","R">>,
                     <<"P","R","O","J","E","C","T"," ","M","A","N","A","G","E","R","S">>>>],
    [replace_by |-> <<"S","Q","L">>,
     to_replace |-> <<<<"M","I","C","R","O","S","O","F","T"," ","S","Q","L"," ","S","E","R","V","E","R">>,
                     <<"M","I","C","R","O","S","O","F","T"," ","S","Q","L","S","E","R","V","E","R">>,
                     <<"D","B","2">>,
                     <<"O","R","A","C","L","E","D","B">>,
                     <<"P","O","S","T","G","R","E","S","Q","L">>,
                     <<"M","Y","S","Q","L">>,
                     <<"R","D","B","M","S">>,
                     <<"D","A","T","A","B","A","S","E"," ","M","Y","S","Q","L">>,
                     <<"D","A","T","A","B","A","S","E"," ","S","Q","L">>,
                     <<"P","O","S","T","E","G","R","E","S","Q","L">>,
                     <<"P","O","S","T","G","E","R","S","Q","L">>,
                     <<"P","O","S","T","G","E","S","Q","L">>>>],
    [replace_by |-> <<"M","O","B","I","L","E">>,
     to_replace |-> <<<<"M","O","B","I","L","E"," ","A","P","P","S">>,
                     <<"M","O","B","I","L","E"," ","F","R","A","M","E","W","O","R","K","S">>>>],
    [replace_by |-> <<"N","L","P">>,
     to_replace |-> <<<<"N","A","T","U","R","A","L"," ","L","A","N","G","U","A","G","E"," ","U","N","D","E","R","S","T","A","N","D","I","N","G">>,
                     <<"N","A","T","U","R","A","L"," ","L","A","N","G","U","A","G","E"," ","P","R","O","C","E","S","S","I","N","G">>>>],
    [replace_by |-> <<"C","L","O","U","D">>,
     to_replace |-> <<<<"C","L","O","U","D"," ","C","O","M","P","U","T","I","N","G">>,
                     <<"C","L","O","U","D"," ","D","E","V","E","L","O","P","M","E","N","T">>,
                     <<"G","O","O","G","L","E"," ","C","L","O","U","D">>,
                     <<"G","O","O","G","L","E"," ","C","L","O","U","D"," ","P","L","A","T","F","O","R","M">>,
                     <<"M","I","N","I","M","A","L"," ","E","X","P","E","R","I","E","N","C","E"," ","W","I","T","H"," ","C","L","O","U","D"," ","A","D","M","I","N">>>>],
    [replace_by |-> <<"F","U","N","C","T","I","O","N","A","L"," ","A","N","A","L","Y","S","I","S">>,
     to_replace |-> <<<<"F","U","N","C","T","I","O","N","A","L"," ","A","N","A","L","Y","S","T">>,
                     <<"F","U","N","C","T","I","O","N","A","L"," ","A","N","A","L","Y","S","Y","S">>,
                     <<"A","N","A","L","I","S","T","A"," ","F","U","N","Z","I","O","N","A","L","E">>>>],
    [replace_by |-> <<"C","O","N","S","U","L","T","A","N","C","Y">>,
     to_replace |-> <<<<"C","O","N","S","U","L","E","N","T","E">>,
                     <<"C","O","N","S","U","L","T","A","N","T","S">>,
                     <<"C","O","N","S","U","L","T","A","N","T">>,
                     <<"C","O","N","S","U","L","T","I","N","G">>,
                     <<"C","O","N","S","U","L","T","A","T","I","V","E"," ","B","U","S","I","N","E","S","S"," ","D","E","V","E","L","O","P","M","E","N","T">>,
                     <<"S","K","I","L","L","S",":"," ","C","O","N","S","U","L","T","I","N","G">>,
                     <<"S","E","N","I","O","R"," ","C","O","N","S","U","L","T","A","N","T">>>>],
    [replace_by |-> <<"R","E","S","O","U","R","C","E"," ","D","E","S","C","R","I","P","T","I","O","N"," ","F","R","A","M","E","W","O","R","K">>,
     to_replace |-> <<<<"R","D","F">>>>],
    [replace_by |-> <<"A","P","I",";","R","E","S","T">>,
     to_replace |-> <<<<"A","P","I"," ","G","A","T","E","W","A","Y">>,
                     <<"A","P","I"," ","R","E","S","T">>,
                     <<"R","E","S","T">>>>],
    [replace_by |-> <<"S","A","P">>,
     to_replace |-> <<<<"S","A","P"," ","B","W">>,
                     <<"S","A","P"," ","A","P","O">>,
                     <<"S","A","P"," ","B","I">>,
                     <<"S","A","P"," ","B","O">>,
                     <<"S","A","P"," ","B","P","C">>,
                     <<"S","A","P"," ","C","O">>,
                     <<"S","A","P"," ","C","R","M">>,
                     <<"S","A","P"," ","F","I">>,
                     <<"S","A","P"," ","H","A","N","A">>,
                     <<"S","A","P"," ","M","M">>,
                     <<"S","A","P"," ","P","P">>,
                     <<"S","A","P"," ","S","D">>,
                     <<"S","A","P"," ","S","Y","C","L","O">>,
                     <<"4","H","A","N","A">>>>],
    [replace_by |-> <<"A","C","C","E","N","T","U","R","E">>,
     to_replace |-> <<<<"A","C","C","E","N","T","U","R","E"," ","I","N","T","E","R","A","C","T","I","V","E">>>>],
    [replace_by |-> <<"A","G","I","L","E">>,
     to_replace |-> <<<<"A","G","I","L","E"," ","S","O","F","T","W","A","R","E"," ","D","E","V","E","L","O","P","M","E","N","T">>>>],
    [replace_by |-> <<"A","N","D","R","O","I","D">>,
     to_replace |-> <<<<"A","N","D","R","O","I","D"," ","D","E","V","E","L","O","P","M","E","N","T">>,
                     <<"A","N","D","R","I","O","D">>,
                     <<"A","N","D","O","R","I","D">>,
                     <<"A","N","D","R">>,
                     <<"A","N","D","R","I","O","D"," ","S","D","K">>>>],
    [replace_by |-> <<"A","N","G","U","L","A","R"," ","J","S">>,
     to_replace |-> <<<<"A","N","G","U","L","A","R",".","J","S">>,
                     <<"A","N","G","U","L","A","R","2">>,
                     <<"A","N","G","U","L","A","R","J","S">>,
                     <<"A","N","G","O","L","A","R","J","S">>,
                     <<"A","N","G","U","L","A">>,
                     <<"A","N","G","U","L","S","R","J","S">>>>],
    [replace_by |-> <<"A","S","S","E","T"," ","M","A","N","A","G","E","M","E","N","T">>,
     to_replace |-> <<<<"A","M">>>>],
    [replace_by |-> <<"A","W","S",";","A","Z","U","R","E">>,
     to_replace |-> <<<<"A","W","S"," ","O","R"," ","A","Z","U","R","E">>>>],
    [replace_by |-> <<"B","L","O","C","K","C","H","A","I","N">>,
     to_replace |-> <<<<"B","L","O","C","K","C","H","A","I","N"," ","D","E","V","E","L","O","P","M","E","N","T">>>>],
    [replace_by |-> <<"B","L","U","E"," ","P","R","I","S","M",";","A","U","T","O","M","A","T","I","O","N"," ","A","N","Y","W","H","E","R","E">>,
     to_replace |-> <<<<"B","L","U","E"," ","P","R","I","S","M"," ","O","R"," ","A","U","T","O","M","A","T","I","O","N"," ","A","N","Y","W","H","E","R","E">>>>],
    [replace_by |-> <<"C","A","R","D"," ","P","A","Y","M","E","N","T","S",";","C","A","S","H","L","E","S","S"," ","P","A","Y","M","E","N","T","S">>,
     to_replace |-> <<<<"C","A","R","D","S">>,
                     <<"C","A","S","H","L","E","S","S"," ","P","A","Y","M","E","N","T","S">>>>],
    [replace_by |-> <<"C","H","I","E","F"," ","D","A","T","A"," ","O","F","F","I","C","E","R">>,
     to_replace |-> <<<<"C","D","O">>>>],
    [replace_by |-> <<"C","S","S">>,
     to_replace |-> <<<<"C","S","S","3">>,
                     <<"C","A","S","C","A","D","I","N","G"," ","S","T","Y","L","E"," ","S","H","E","E","T","S">>>>],
    [replace_by |-> <<"D","3"," ","J","S">>,
     to_replace |-> <<<<"D","3">>,
                     <<"D","3","J","S">>>>],
    [replace_by |-> <<"D","A","T","A"," ","E","N","G","I","N","E","E","R","I","N","G">>,
     to_replace |-> <<<<"D","A","T","A"," ","E","N","G","I","N","E","E","R">>>>],
    [replace_by |-> <<"D","A","T","A"," ","G","O","V","E","R","N","A","N","C","E">>,
     to_replace |-> <<<<"D","A","T","A"," ","G","O","V","E","R","N","A","N","C","E"," ","S","O","F","T","W","A","R","E">>>>],
    [replace_by |-> <<"S","E","C","U","R","I","T","Y">>,
     to_replace |-> <<<<"I","T"," ","S","E","C","U","R","I","T","Y">>,
                     <<"D","E","F","I","N","E"," ","A","N","D"," ","S","U","P","P","O","R","T"," ","I","T"," ","S","E","C","U","R","I","T","Y"," ","P","O","L","I","C","Y">>,
                     <<"K","N","O","W","L","E","D","G","E"," ","O","F"," ","S","E","C","U","R","I","T","Y"," ","S","Y","S","T","E","M","S"," ","A","N","D"," ","A","R","C","H","I","T","E","C","T","U","R","E","S">>,
                     <<"S","E","C","U","R","I","T","Y">>>>],
    [replace_by |-> <<"D","I","S","T","R","I","B","U","T","E","D"," ","C","O","M","P","U","T","I","N","G">>,
     to_replace |-> <<<<"D","I","S","T","R","I","B","U","T","E","D"," ","A","R","C","H","I","T","E","C","T","U","R","E","S">>>>],
    [replace_by |-> <<"D","O","C","K","E","R",";","K","U","B","E","R","N","E","T","E","S">>,
     to_replace |-> <<<<"D","O","C","K","E","R"," ","O","R"," ","K","U","B","E","R","N","E","T","E","S">>>>],
    [replace_by |-> <<"D","A","T","A"," ","W","A","R","E","H","O","U","S","I","N","G">>,
     to_replace |-> <<<<"D","W","H">>>>],
    [replace_by |-> <<"W","E","B">>,
     to_replace |-> <<<<"E"," ","U","N"," ","W","E","B"," ","A","R","C","H","I","T","E","C","T">>,
                     <<"W","E","B","L","O","G","I","C"," ","1","0","3">>,
                     <<"S","T","A","N","N","O"," ","C","E","R","C","A","N","D","O"," ","2"," ","B","A","C","K"," ","E","N","D"," ","E"," ","2"," ","F","U","L","L"," ","S","T","A","C","K"," ","D","E","V","E","L","O","P","E","R">>>>],
    [replace_by |-> <<"C","L","O","U","D",";","A","W","S",";","E","2","C">>,
     to_replace |-> <<<<"E","C","2">>>>],
    [replace_by |-> <<"B","L","O","C","K","C","H","A","I","N",";","E","T","H","E","R","E","U","M">>,
     to_replace |-> <<<<"E","T","H","E","R","E","U","M">>>>],
    [replace_by |-> <<"F","I","N","A","N","C","E",";","F","I","N","A","N","C","I","A","L"," ","A","N","A","L","Y","S","I","S">>,
     to_replace |-> <<<<"F","I","N","A","N","C","I","A","L"," ","A","N","A","L","Y","S","I","S">>>>],
    [replace_by |-> <<"F","I","N","A","N","C","E",";","F","I","N","A","N","C","I","A","L"," ","F","R","A","M","E","W","O","R","K","S">>,
     to_replace |-> <<<<"F","I","N","A","N","C","I","A","L"," ","F","R","A","M","E","W","O","R","K","S">>>>],
    [replace_by |-> <<"G","I","T",";","R","E","A","C","T">>,
     to_replace |-> <<<<"G","I","T"," ","A","N","D"," ","A"," ","M","I","N","U","M","U","M"," ","O","F"," ","2"," ","Y","E","A","R","S"," ","E","X","P","E","R","I","E","N","C","E"," ","W","I","T","H"," ","R","E","A","C","T">>>>],
    [replace_by |-> <<"G","I","T">>,
     to_replace |-> <<<<"G","I","T","H","U","B">>>>],
    [replace_by |-> <<"H","A","D","O","O","P">>,
     to_replace |-> <<<<"H","D","F","S">>,
                     <<"H","A","D","H","O","O","P">>,
                     <<"H","A","D","O">>>>],
    [replace_by |-> <<"I","T">>,
     to_replace |-> <<<<"I","N","F","O","R","M","A","T","I","C","A">>,
                     <<"I","T"," ","S","U","P","P","O","R","T"," ","O","N"," ","M","A","C"," ","A","N","D"," ","M","I","C","R","O","S","O","F","T"," ","H","A","R","D","W","A","R","E">>>>],
    [replace_by |-> <<"I","N","F","R","A","S","T","R","U","C","T","U","R","E">>,
     to_replace |-> <<<<"I","N","F","R","A","S","T","R","U","C","T","U","R","E"," ","E","X","P","E","R","I","E","N","C","E">>,
                     <<"I","N","F","R","A","S","T","R","U","C","T","U","R","E"," ","I","N","T","E","G","R","A","T","I","O","N">>,
                     <<"S","Y","S","T","E","M"," ","I","N","T","E","G","R","A","T","I","O","N","S">>>>],
    [replace_by |-> <<"I","S","O"," ","2","7","0","0","1",";","I","T"," ","S","E","C","U","R","I","T","Y">>,
     to_replace |-> <<<<"I","S","O"," ","2","7","0","0","1">>,
                     <<"I","S","O","2","7","0","0","1","L","A">>,
                     <<"I","E","C"," ","2","7","0","0","1">>>>],
    [replace_by |-> <<"J","A","V","A">>,
     to_replace |-> <<<<"J","A","V","A"," ","E","E">>,
                     <<"R","X","J","A","V","A">>,
                     <<"S","K","I","L","L","S",":"," ","J","A","V","A">>,
                     <<"J","2","E","E">>>>],
    [replace_by |-> <<"J","A","V","A","S","C","R","I","P","T">>,
     to_replace |-> <<<<"J","S">>>>],
    [replace_by |-> <<"M","I","C","R","O","S","O","F","T"," ","B","I",";","B","U","S","I","N","E","S","S"," ","I","N","T","E","L","L","I","G","E","N","C","E">>,
     to_replace |-> <<<<"M","I","C","R","O","S","O","F","T"," ","B","I">>>>],
    [replace_by |-> <<"P","O","W","E","R"," ","B","I",";","B","U","S","I","N","E","S","S"," ","I","N","T","E","L","L","I","G","E","N","C","E">>,
     to_replace |-> <<<<"P","O","W","E","R"," ","B","I">>>>],
    [replace_by |-> <<"M","O","N","G","O","D","B">>,
     to_replace |-> <<<<"M","O","N","G","O">>>>],
    [replace_by |-> <<"M","I","C","R","O","S","O","F","T"," ","A","D">>,
     to_replace |-> <<<<"M","S"," ","A","D"," ","A","U","T","H","E","N","T","I","C","A","T","I","O","N">>>>],
    [replace_by |-> <<"N","E","G","O","T","I","A","T","I","O","N">>,
     to_replace |-> <<<<"C","O","N","T","R","A","C","T"," ","A","N","D"," ","V","E","N","D","O","R"," ","N","E","G","O","T","I","A","T","I","O","N","S">>,
                     <<"N","E","G","O","T","I","A","T","I","O","N","S">>>>],
    [replace_by |-> <<"S","A","L","E","S">>,
     to_replace |-> <<<<"P","R","E","S","A","L","E","S">>,
                     <<"P","R","E"," ","S","A","L","E","S">>,
                     <<"P","R","E","-","S","A","L","E","S"," ","A","N","D"," ","B","U","D","G","E","T"," ","M","A","N","A","G","E","M","E","N","T">>>>],
    [replace_by |-> <<"P","R","O","J","E","C","T"," ","M","A","N","A","G","E","M","E","N","T",";","P","R","O","D","U","C","T"," ","M","A","N","A","G","E","M","E","N","T">>,
     to_replace |-> <<<<"P","R","O","J","E","C","T"," ","A","N","D"," ","P","R","O","D","U","C","T"," ","M","A","N","A","G","E","M","E","N","T">>>>],
    [replace_by |-> <<"R","E","C","O","M","M","E","N","D","A","T","I","O","N">>,
     to_replace |-> <<<<"R","E","C","C","O","M","E","N","D","A","T","I","O","N">>>>],
    [replace_by |-> <<"R","O","B","O","T","I","C">>,
     to_replace |-> <<<<"R","O","B","O","T","I","C"," ","P","R","O","C","E","S","S"," ","A","U","T","O","M","A","T","I","O","N">>>>],
    [replace_by |-> <<"A","W","S"," ","S","3",";","A","W","S">>,
     to_replace |-> <<<<"S","3">>>>],
    [replace_by |-> <<"S","A","L","E","S","F","O","R","C","E">>,
     to_replace |-> <<<<"S","A","L","E","S","F","O","R","C","E","C","O","M">>>>],
    [replace_by |-> <<"S","A","S">>,
     to_replace |-> <<<<"S","A","S"," ","V","I","S","U","A","L"," ","A","N","A","L","Y","T","I","C","S">>,
                     <<"S","A","S","S">>>>],
    [replace_by |-> <<"P","Y","T","H","O","N",";","S","C","I","K","I","T","L","E","A","R","N">>,
     to_replace |-> <<<<"S","C","I","K","I","T","L","E","A","R","N">>>>],
    [replace_by |-> <<"P","Y","T","H","O","N",";","S","C","I","P","Y">>,
     to_replace |-> <<<<"S","C","I","P","Y">>>>],
    [replace_by |-> <<"S","T","A","T","I","S","T","I","C","S">>,
     to_replace |-> <<<<"S","T","A","T","I","S","T","I","C","A","L"," ","A","N","A","L","Y","S","I","S">>>>],
    [replace_by |-> <<"S","W","I","F","T">>,
     to_replace |-> <<<<"S","W","I","F","T"," ","5">>,
                     <<"S","W","I","F","T"," ","S","E","C","U","R","I","T","Y"," ","P","R","O","G","R","A","M","M","E">>>>],
    [replace_by |-> <<"V","I","R","T","U","A","L"," ","M","A","C","H","I","N","E","S">>,
     to_replace |-> <<<<"V","I","R","T","U","A","L"," ","M","A","C","H","I","N","E","S">>>>],
    [replace_by |-> <<"S","E","C","U","R","I","T","Y",";","V","U","L","N","E","R","A","B","I","L","I","T","Y"," ","A","S","S","E","S","S","M","E","N","T">>,
     to_replace |-> <<<<"V","U","L","N","E","R","A","B","I","L","I","T","Y"," ","A","S","S","E","S","S","M","E","N","T">>>>],
    [replace_by |-> <<"S","E","C","U","R","I","T","Y",";","V","U","L","N","E","R","A","B","I","L","I","T","Y"," ","M","A","N","A","G","E","M","E","N","T">>,
     to_replace |-> <<<<"V","U","L","N","E","R","A","B","I","L","I","T","Y"," ","M","A","N","A","G","E","M","E","N","T">>>>],
    [replace_by |-> <<"V","U","E"," ","J","S">>,
     to_replace |-> <<<<"V","U","E">>>>],
    [replace_by |-> <<"W","E","B","P","A","C","K">>,
     to_replace |-> <<<<"W","E","B","P","A","C","K"," ","O","R"," ","S","I","M","I","L","A","R"," ","T","O","O","L","S">>>>],
    [replace_by |-> <<"W","E","B","S","H","E","P","E","R","E">>,
     to_replace |-> <<<<"W","E","B","S","H","E","P","E","R","E"," ","7">>>>],
    [replace_by |-> <<"P","I","G",";","S","P","A","R","K">>,
     to_replace |-> <<<<"P","I","G"," ","A","N","D"," ","S","P","A","R","K">>>>],
    [replace_by |-> <<"A","N","A","L","Y","S","I","S">>,
     to_replace |-> <<<<"A","N","A","L","Y","S","E">>,
                     <<"A","N","A","L","Y","S","I","N","G">>>>],
    [replace_by |-> <<"B","O","O","T","S","T","R","A","P">>,
     to_replace |-> <<<<"B","O","O","T","S","R","A","P">>,
                     <<"B","O","O","T","R","S","T","R","A","P","S">>,
                     <<"B","O","O","T","R","S","T","R","A","P","S">>,
                     <<"B","O","O","S","T","R","A","P","C","S","S">>,
                     <<"B","O","O","T","S","T","R">>,
                     <<"B","O","O","T","S","T","R">>,
                     <<"B","O","O","S","T">>>>],
    [replace_by |-> <<"C","A","S","S","A","N","D","R","A">>,
     to_replace |-> <<<<"C","A","S","A","N","D","R","A">>>>],
    [replace_by |-> <<"D","A","T","A","B","A","S","E">>,
     to_replace |-> <<<<"D","B","M","S">>,
                     <<"D","B","A","S","E">>,
                     <<"D","B","A">>>>],
    [replace_by |-> <<"M","I","C","R","O","S","O","F","T">>,
     to_replace |-> <<<<"M","I","C","O","R","O","S","O","F","T">>,
                     <<"M","I","C","O","R","S","O","F","T">>,
                     <<"M","I","C","O","R","S","O","F","T"," ","E","X","C","E","L">>>>]
  >>

\* replacement_dict of normalize_skills_series_extra (prefix : replace_by), in declaration order
replacement_dict ==
  <<
    <<<<"2","G"," ","N","E","T">>, <<"2","G"," ","N","E","T","W","O","R","K","S">>>>,
    <<<<"3","G"," ","N","E","T">>, <<"3","G"," ","N","E","T","W","O","R","K","S">>>>,
    <<<<"4","G"," ","N","E","T">>, <<"4","G"," ","N","E","T","W","O","R","K","S">>>>,
    <<<<"5","G"," ","N","E","T">>, <<"5","G"," ","N","E","T","W","O","R","K","S">>>>,
    <<<<"6","G"," ","N","E","T">>, <<"6","G"," ","N","E","T","W","O","R","K","S">>>>,
    <<<<"3","D"," ","S","T","U","D","I","O">>, <<"3","D"," ","S","T","U","D","I","O">>>>,
    <<<<"A","C","C","E","P","T","A","N","C","E"," ","T","E","S","T">>, <<"A","C","C","E","P","T","A","N","C","E"," ","T","E","S","T">>>>,
    <<<<"A","C","T","I","O","N","S","C","R">>, <<"A","C","T","I","O","N","S","C","R","I","P","T">>>>,
    <<<<"A","C","T","I","V","E"," ","D","I">>, <<"A","C","T","I","V","E"," ","D","I","R","E","C","T","O","R","Y">>>>,
    <<<<"A","C","T","I","V","E"," ","S">>, <<"A","C","T","I","V","E"," ","S","E","R","V","E","R">>>>,
    <<<<"A","C","T","I","V","E"," ","T","E","M","P","L","A","T","E">>, <<"A","C","T","I","V","E"," ","T","E","M","P","L","A","T","E">>>>,
    <<<<"A","C","T","I","V","E","M","A","T","R","I">>, <<"A","C","T","I","V","E","M","A","T","R","I","X"," ">>>>,
    <<<<"A","C","T","I","V","I","T","I">>, <<"A","C","T","I","V","I","T","I">>>>,
    <<<<"A","D"," ","H","O","C">>, <<"A","D","H","O","C"," ","A","N","A","L","Y","S","I","S">>>>,
    <<<<"A","D","H","O","C">>, <<"A","D","H","O","C"," ","A","N","A","L","Y","S","I","S">>>>,
    <<<<"A","D"," ">>, <<"A","D","V","E","R","T","I","S","E","M","E","N","T">>>>,
    <<<<"A","D","A"," ">>, <<"A","D","A">>>>,
    <<<<"A","D","A","B","A","S"," ">>, <<"A","D","A","B","A","S">>>>,
    <<<<"A","D","O","B","E"," ">>, <<"A","D","O","B","E">>>>,
    <<<<"A","G","I","L","E"," ">>, <<"A","G","I","L","E">>>>,
    <<<<"A","J","A","X"," ">>, <<"A","J","A","X">>>>,
    <<<<"A","K","K","A"," ">>, <<"A","K","K","A">>>>,
    <<<<"A","L","G","O">>, <<"A","L","G","O","R","I","T","H","M","S">>>>,
    <<<<"A","L","L"," ","I","T">>, <<"I","T">>>>,
    <<<<"A","L","T","O","V","A"," ">>, <<"A","L","T","O","V","A">>>>,
    <<<<"A","M","A","Z","O">>, <<"A","W","S">>>>,
    <<<<"A","N","D","R","O">>, <<"A","N","D","R","O","I","D">>>>,
    <<<<"A","N","G","U","L","A">>, <<"A","N","G","U","L","A","R"," ","J","S">>>>,
    <<<<"A","P","A","C","H","E"," ","H","A","D","O","O","P">>, <<"H","A","D","O","O","P">>>>,
    <<<<"A","P","A","C","H","E"," ","H","B","A","S","E">>, <<"H","B","A","S","E">>>>,
    <<<<"A","P","A","C","H","E"," ","H","I">>, <<"H","I","V","E">>>>,
    <<<<"A","P","A","C","H","E"," ","K">>, <<"K","A","F","K","A">>>>,
    <<<<"A","P","A","C","H","E"," ","M">>, <<"M","A","H","O","U","T">>>>,
    <<<<"A","P","A","C","H","E"," ","S","P">>, <<"S","P","A","R","K">>>>,
    <<<<"A","P","A","C","H","E"," ","S","U">>, <<"A","P","A","C","H","E"," ","S","U","B","V","E","R","S","I","O","N">>>>,
    <<<<"A","P","A","C","H","E"," ","W","E">>, <<"A","P","A","C","H","E"," ","W","E","B"," ","S","E","R","V","E","R">>>>,
    <<<<"A","P","I"," ">>, <<"A","P","I">>>>,
    <<<<"A","P","O","L","L","O"," ">>, <<"A","P","O","L","L","O">>>>,
    <<<<"A","P","P","L","E">>, <<"A","P","P","L","E">>>>,
    <<<<"A","R","T","I","F","I","C">>, <<"A","R","T","I","F","I","C","I","A","L"," ","I","N","T","E","L","L","I","G","E","N","C","E">>>>,
    <<<<"A","S","C","E","N","T","I","A","L">>, <<"A","S","C","E","N","T","I","A","L"," ","D","A","T","A","S","T","A","G","E">>>>,
    <<<<"A","S","P","E","N"," ">>, <<"A","S","P","E","N">>>>,
    <<<<"A","S","S","E","T"," ">>, <<"A","S","S","E","T"," ","M","A","N","A","G","E","M","E","N","T">>>>,
    <<<<"A","S","Y","N","C","H","R">>, <<"A","S","Y","N","C","H","R","O","N","O","U","S"," ","T","R","A","N","S","F","E","R"," ","M","O","D","E">>>>,
    <<<<"A","T","L","A","S","S","I","A","N">>, <<"A","T","L","A","S","S","I","A","N">>>>,
    <<<<"A","U","T","O","D","E","S","K">>, <<"A","U","T","O","D","E","S","K">>>>,
    <<<<"A","W","S"," ">>, <<"A","W","S">>>>,
    <<<<"A","Z","U","R","E"," ">>, <<"A","Z","U","R","E">>>>,
    <<<<"B","A","C","K","-","E","N","D">>, <<"B","A","C","K"," ","E","N","D">>>>,
    <<<<"B","A","C","K","B","O","N","E"," ","N","E","T","W","O","R","K","S">>, <<"B","A","C","K","B","O","N","E"," ","N","E","T","W","O","R","K","S">>>>,
    <<<<"B","A","L","S","A","M","I","C">>, <<"B","A","L","S","A","M","I","Q">>>>,
    <<<<"B","A","S","E"," ","S","A","S">>, <<"S","A","S">>>>,
    <<<<"B","E","X"," ">>, <<"B","E","X">>>>,
    <<<<"B","I","G"," ","D">>, <<"B","I","G"," ","D","A","T","A">>>>,
    <<<<"B","L","O","C","K","C","H","A">>, <<"B","L","O","C","K","C","H","A","I","N">>>>,
    <<<<"B","L","O","O","M","B","E">>, <<"B","L","O","O","M","B","E","R","G">>>>,
    <<<<"B","L","U","E","T","O","O">>, <<"B","L","U","E","T","O","O","T","H">>>>,
    <<<<"B","O","O","T","S","T","R","A","P">>, <<"B","O","O","T","S","T","R","A","P">>>>,
    <<<<"C","A","S","C","A","D","I","N","G"," ","S","T","Y","L","E">>, <<"C","S","S">>>>,
    <<<<"A","R","C","H","I","T","E","C">>, <<"A","R","C","H","I","T","E","C","T","U","R","E">>>>,
    <<<<"A","R","D","U","I">>, <<"A","R","D","U","I","N","O">>>>,
    <<<<"A","R","M"," ">>, <<"A","R","M">>>>,
    <<<<"A","R","T"," ">>, <<"A","R","T">>>>,
    <<<<"A","S","A","P"," ">>, <<"A","S","A","P">>>>,
    <<<<"A","S","P"," ">>, <<"A","S","P">>>>,
    <<<<"B","A","S","H"," ">>, <<"B","A","S","H">>>>,
    <<<<"B","E","H","A","V","I","O","U","R">>, <<"B","E","H","A","V","I","O","U","R"," ","A","N","A","L","Y","S","I","S">>>>,
    <<<<"B","I","L","L","I","N">>, <<"B","I","L","L","I","N","G"," ","S","Y","S","T","E","M","S">>>>,
    <<<<"B","I","T","B","U","C">>, <<"B","I","T","B","U","C","K","E","T">>>>,
    <<<<"B","L","A","C","K","B","E","R","R","Y">>, <<"B","L","A","C","K","B","E","R","R","Y">>>>,
    <<<<"B","M","C"," ">>, <<"B","M","C">>>>,
    <<<<"B","O","O","S","T","R","A","P">>, <<"B","O","O","T","S","T","R","A","P">>>>,
    <<<<"B","O","U","R","N","E">>, <<"B","O","U","R","N","E">>>>,
    <<<<"B","U","S","I","N","E","S","S"," ","O">>, <<"B","U","S","I","N","E","S","S"," ","O","B","J","E","C","T">>>>,
    <<<<"B","U","S","I","N","E","S","S","O","B">>, <<"B","U","S","I","N","E","S","S"," ","O","B","J","E","C","T">>>>,
    <<<<"B","U","S","I","N","E","S","S"," ","S">>, <<"B","U","S","I","N","E","S","S"," ","S","U","P","P","O","R","T">>>>,
    <<<<"C"," ">>, <<"C">>>>,
    <<<<"C","+">>, <<"C","+","+">>>>,
    <<<<"C","A","M"," ">>, <<"C","A","M">>>>,
    <<<<"C","A","S","C","A">>, <<"C","S","S">>>>,
    <<<<"C","C","S"," ">>, <<"C","C","S">>>>,
    <<<<"C","A","S","S","A","N","D","R","A">>, <<"C","A","S","S","A","N","D","R","A">>>>,
    <<<<"C","D"," ">>, <<"C","D">>>>,
    <<<<"C","E","L","L","U","L","A","R"," ">>, <<"C","E","L","L","U","L","A","R">>>>,
    <<<<"C","E","N","T","O","S"," ">>, <<"C","E","N","T","O","S">>>>,
    <<<<"C","G","I"," ">>, <<"C","G","I">>>>,
    <<<<"C","I","S","C","O"," ">>, <<"C","I","S","C","O">>>>,
    <<<<"C","I","T","R","I","X"," ">>, <<"C","I","T","R","I","X">>>>,
    <<<<"C","L","O","U","D"," ">>, <<"C","L","O","U","D">>>>,
    <<<<"C","L","O","U","D","E">>, <<"C","L","O","U","D","E","R","A">>>>,
    <<<<"C","L","U","S","T","E","R"," ">>, <<"D","I","S","T","R","I","B","U","T","E","D"," ","C","O","M","P","U","T","I","N","G">>>>,
    <<<<"C","L","U","S","T","E","R","S">>, <<"D","I","S","T","R","I","B","U","T","E","D"," ","C","O","M","P","U","T","I","N","G">>>>,
    <<<<"C","M","M","I">>, <<"C","M","M","I">>>>,
    <<<<"C","M","S"," ">>, <<"C","M","S">>>>,
    <<<<"C","O","B","O","L">>, <<"C","O","B","O","L">>>>,
    <<<<"C","O","C","O","A">>, <<"C","O","C","O","A">>>>,
    <<<<"C","O","D","E","I","G">>, <<"C","O","D","E","I","G","N","I","T","E","R">>>>,
    <<<<"C","O","G","N","O","S">>, <<"C","O","G","N","O","S">>>>,
    <<<<"C","O","M","M","U","N","I","C","A","T">>, <<"C","O","M","M","U","N","I","C","A","T","I","O","N">>>>,
    <<<<"C","O","N","S","U","L">>, <<"C","O","N","S","U","L","T","A","N","C","Y">>>>,
    <<<<"C","O","N","T","E","N","T"," ","M">>, <<"C","O","N","T","E","N","T"," ","M","A","N","A","G","E","M","E","N","T">>>>,
    <<<<"C","O","N","T","I","N","U","O","U","S"," ","D">>, <<"C","D">>>>,
    <<<<"C","O","N","T","I","N","U","O","U","S"," ","I">>, <<"C","I">>>>,
    <<<<"C","R","M"," ">>, <<"C","R","M">>>>,
    <<<<"C","R","U","D"," ">>, <<"C","R","U","D">>>>,
    <<<<"D","A","T","A"," ","I">>, <<"D","A","T","A"," ","I","N","T","E","G","R","A","T","I","O","N">>>>,
    <<<<"D","A","T","A"," ","M","I","N">>, <<"D","A","T","A"," ","M","I","N","I","N","G">>>>,
    <<<<"D","A","T","A"," ","M","O">>, <<"D","A","T","A"," ","M","O","D","E","L","L","I","N","G">>>>,
    <<<<"D","A","T","A"," ","M">>, <<"D","A","T","A"," ","M","A","N","A","G","E","M","E","N","T">>>>,
    <<<<"D","A","T","A"," ","P","R","O">>, <<"D","A","T","A"," ","P","R","O","C","E","S","S","I","N","G">>>>,
    <<<<"D","A","T","A"," ","P","R","E","-","P","R","O","C","E","S","S","I","N","G">>, <<"D","A","T","A"," ","P","R","O","C","E","S","S","I","N","G">>>>,
    <<<<"D","A","T","A"," ","Q","U","A","L","I","T","Y">>, <<"D","A","T","A"," ","M","A","N","A","G","E","M","E","N","T">>>>,
    <<<<"D","A","T","A"," ","S","T","O","R","A","G">>, <<"D","A","T","A"," ","S","T","O","R","A","G","E">>>>,
    <<<<"D","A","T","A"," ","T","R","A","N","S">>, <<"D","A","T","A"," ","T","R","A","N","S","F","O","R","M","A","T","I","O","N">>>>,
    <<<<"D","A","T","A"," ","V","I">>, <<"D","A","T","A"," ","V","I","S","U","A","L","I","Z","A","T","I","O","N">>>>,
    <<<<"D","A","T","A"," ","W","A">>, <<"D","A","T","A"," ","W","A","R","E","H","O","U","S","I","N","G">>>>,
    <<<<"D","A","T","A","B","A","S","E"," ">>, <<"D","A","T","A","B","A","S","E">>>>,
    <<<<"D","E","B">>, <<"D","E","B","I","A","N">>>>,
    <<<<"D","E","E","P">>, <<"D","E","E","P"," ","L","E","A","R","N","I","N","G">>>>,
    <<<<"D","E","L"," ">>, <<"D","E","L">>>>,
    <<<<"D","E","P","L","O","Y","M","E","N","T"," ">>, <<"D","E","P","L","O","Y","M","E","N","T">>>>,
    <<<<"D","I","S","T","R">>, <<"D","I","S","T","R","I","B","U","T","E","D"," ","C","O","M","P","U","T","I","N","G">>>>,
    <<<<"D","J","A","N","G","O">>, <<"D","J","A","N","G","O">>>>,
    <<<<"D","O","C","K","E","R">>, <<"D","O","C","K","E","R">>>>,
    <<<<"D","O","J","O">>, <<"D","O","J","O">>>>,
    <<<<"D","O","M","A","I","N"," ","N","A">>, <<"D","N","S">>>>,
    <<<<"D","R","E","A","M","W","E","A","V","E","R">>, <<"D","R","E","A","M","W","E","A","V","E","R">>>>,
    <<<<"D","R","U","P","A","L">>, <<"D","R","U","P","A","L">>>>,
    <<<<"E","-","C","O","M","M","E","R","C","E">>, <<"E","-","C","O","M","M","E","R","C","E">>>>,
    <<<<"E","C","O","M","M","E">>, <<"E","-","C","O","M","M","E","R","C","E">>>>,
    <<<<"E","C","L","I","P","S","E">>, <<"E","C","L","I","P","S","E">>>>,
    <<<<"E","L","A","S","T","I","C","S","E","A","R">>, <<"E","L","A","S","T","I","C","H","S","E","A","R","C","H">>>>,
    <<<<"E","M","B","E","D">>, <<"E","M","B","E","D","D","E","D">>>>,
    <<<<"E","R","P"," ">>, <<"E","R","P">>>>,
    <<<<"E","T","L"," ">>, <<"E","T","L">>>>,
    <<<<"E","X","T","R","E","M","E"," ","P","R">>, <<"E","X","T","R","E","M","E"," ","P","R","O","G","R","A","M","M","I","N","G">>>>,
    <<<<"F","I","R","E","W","A">>, <<"F","I","R","E","W","A","L","L","S">>>>,
    <<<<"F","L","A","S","H"," ">>, <<"F","L","A","S","H">>>>,
    <<<<"F","R","O","N","T"," ","E">>, <<"F","R","O","N","T"," ","E","N","D">>>>,
    <<<<"F","R","O","N","T","E">>, <<"F","R","O","N","T"," ","E","N","D">>>>,
    <<<<"F","T","T","X"," ">>, <<"F","T","T","X">>>>,
    <<<<"F","U","L","L"," ","S","T">>, <<"S","W"," ","D","E","V","E","L","O","P","M","E","N","T">>>>,
    <<<<"F","U","N","C","T","I","O","N","A","L"," ","D">>, <<"F","U","N","C","T","I","O","N","A","L"," ","D","E","S","I","G","N">>>>,
    <<<<"F","U","N","C","T","I","O","N","A","L"," ","P","R","O">>, <<"F","U","N","C","T","I","O","N","A","L"," ","P","R","O","G","R","A","M","M","I","N","G">>>>,
    <<<<"F","U","N","C","T","I","O","N","A","L"," ","R","E">>, <<"F","U","N","C","T","I","O","N","A","L"," ","R","E","Q","U","I","R","E","M","E","N","T","S">>>>,
    <<<<"G","A","M","E"," ">>, <<"G","A","M","E">>>>,
    <<<<"G","E","O","G","R","A","P","H","I","C"," ","I">>, <<"G","E","O","G","R","A","P","H","I","C"," ","I","N","F","O","R","M","A","T","I","O","N"," ","S","Y","S","T","E","M","S">>>>,
    <<<<"G","O","O","G","L","E"," ","C","L">>, <<"C","L","O","U","D">>>>,
    <<<<"G","R","A","P","H","I","C">>, <<"G","R","A","P","H","I","C","S">>>>,
    <<<<"G","U","I"," ">>, <<"G","U","I">>>>,
    <<<<"H","A","D","O","O","P"," ">>, <<"H","A","D","O","O","P">>>>,
    <<<<"H","A","N","A"," ">>, <<"H","A","N","A">>>>,
    <<<<"H","E","L","P","D","E","S","K">>, <<"H","E","L","P","D","E","S","K">>>>,
    <<<<"H","I","B","E">>, <<"H","I","B","E","R","N","A","T","E">>>>,
    <<<<"H","P"," ">>, <<"H","P">>>>,
    <<<<"H","T","M">>, <<"H","T","M","L">>>>,
    <<<<"H","T","T","P">>, <<"H","T","T","P">>>>,
    <<<<"H","Y","P","E","R","I","O","N">>, <<"H","Y","P","E","R","I","O","N">>>>,
    <<<<"I","B","M"," ","C","L","O","U","D">>, <<"C","L","O","U","D">>>>,
    <<<<"I","B","M"," ","C","O","G","N","O">>, <<"C","O","G","N","O","S">>>>,
    <<<<"I","B","M"," ","H","A">>, <<"I","B","M"," ","H","A","R","D","W","A","R","E">>>>,
    <<<<"I","B","M"," ","W","E","B">>, <<"I","B","M"," ","W","E","B","S","P","H","E","R","E">>>>,
    <<<<"I","C","T"," ">>, <<"I","C","T">>>>,
    <<<<"I","D","E","E">>, <<"I","D","E","E">>>>,
    <<<<"I","N","F","O","R","M","A","T","I","C","A">>, <<"I","T">>>>,
    <<<<"I","N","F","O","R","M","A","T","I","O","N"," ","S","E","C">>, <<"S","E","C","U","R","I","T","Y">>>>,
    <<<<"I","N","F","O","R","M","A","T","I","O","N"," ","T","E","C">>, <<"I","T">>>>,
    <<<<"I","N","T","E","L"," ">>, <<"I","N","T","E","L">>>>,
    <<<<"I","N","T","E","L","L","I","J">>, <<"I","N","T","E","L","L","I","J">>>>,
    <<<<"I","N","T","R","U","S","I","O","N">>, <<"I","N","T","R","U","S","I","O","N"," ","D","E","T","E","C","T","I","O","N">>>>,
    <<<<"I","O","N","I","C"," ">>, <<"I","O","N","I","C">>>>,
    <<<<"I","O","T"," ">>, <<"I","O","T">>>>,
    <<<<"I","P"," ">>, <<"I","P">>>>,
    <<<<"I","P","H","O","N","E">>, <<"I","P","H","O","N","E">>>>,
    <<<<"I","S","O"," ","2","7">>, <<"S","E","C","U","R","I","T","Y">>>>,
    <<<<"I","S","O"," ","9","0","0","X">>, <<"I","S","O"," ","9","0","0","X">>>>,
    <<<<"I","T"," ","A","R","C","H","I","T","E","C","T","U","R","E">>, <<"I","T"," ","A","R","C","H","I","T","E","C","T","U","R","E">>>>,
    <<<<"I","T"," ","I","N","F","R","A","S","T","R","U","C","T","U","R","E">>, <<"I","N","F","R","A","S","T","R","U","C","T","U","R","E">>>>,
    <<<<"I","T"," ","P","R","O","J","E","C","T">>, <<"P","R","O","J","E","C","T"," ","M","A","N","A","G","E","M","E","N","T">>>>,
    <<<<"I","T","I","L">>, <<"I","T","I","L">>>>,
    <<<<"J","A","K">>, <<"J","A","K","A","R","T","A"," ","T","O","M","C","A","T">>>>,
    <<<<"J","A","S","P","E","R">>, <<"J","A","S","P","E","R">>>>,
    <<<<"J","A","V","A"," ">>, <<"J","A","V","A">>>>,
    <<<<"J","A","V","A","S","C">>, <<"J","A","V","A","S","C","R","I","P","T">>>>,
    <<<<"J","A","V","A","S","E">>, <<"J","A","V","A"," ","S","E","R","V","E","R">>>>,
    <<<<"J","B","O","S">>, <<"J","B","O","S","S">>>>,
    <<<<"J","D","E">>, <<"J","D","E">>>>,
    <<<<"J","I","R","A"," ">>, <<"J","I","R","A">>>>,
    <<<<"J","O","O","M">>, <<"J","O","O","M","L","A">>>>,
    <<<<"J","Q","U">>, <<"J","Q","U","E","R","Y">>>>,
    <<<<"J","S","C">>, <<"J","A","V","A","S","C","R","I","P","T">>>>,
    <<<<"J","S","O">>, <<"J","S","O","N">>>>,
    <<<<"J","U","L","I","A">>, <<"J","U","L","I","A">>>>,
    <<<<"J","U","P","I","T","E","R">>, <<"J","U","P","Y","T","E","R">>>>,
    <<<<"J","U","P","Y","T","E","R">>, <<"J","U","P","Y","T","E","R">>>>,
    <<<<"K","A","F","K">>, <<"K","A","F","K","A">>>>,
    <<<<"K","E","R","A">>, <<"K","E","R","A","S">>>>,
    <<<<"K","N","O","C">>, <<"K","N","O","C","K","O","U","T"," ","J","S">>>>,
    <<<<"K","O","R","N"," ">>, <<"K","O","R","N">>>>,
    <<<<"L","I","N","U">>, <<"L","I","N","U","X">>>>,
    <<<<"L","O","T","U","S"," ">>, <<"L","O","T","U","S">>>>,
    <<<<"L","S","I"," ">>, <<"L","S","I">>>>,
    <<<<"L","U","A">>, <<"L","U","A">>>>,
    <<<<"M","A","C","H","I","N","E"," ","L">>, <<"M","A","C","H","I","N","E"," ","L","E","A","R","N","I","N","G">>>>,
    <<<<"M","A","C","R","O","M","E","D","I","A">>, <<"M","A","C","R","O","M","E","D","I","A">>>>,
    <<<<"M","A","R","K","E","T">>, <<"M","A","R","K","E","T","I","N","G"," ">>>>,
    <<<<"M","A","S","T","E","R"," ","D","A","T","A">>, <<"D","A","T","A">>>>,
    <<<<"M","A","T","L","A">>, <<"M","A","T","L","A","B">>>>,
    <<<<"M","C","A","F","E","E">>, <<"M","C","A","F","E","E">>>>,
    <<<<"M","E","R","C","U","R","Y"," ">>, <<"M","E","R","C","U","R","Y">>>>,
    <<<<"M","I","C","R","O","S","O","F","T"," ","A","S">>, <<"A","S","P">>>>,
    <<<<"M","I","C","R","O","S","O","F","T"," ","C">>, <<"C","#">>>>,
    <<<<"M","I","C","R","O","S","O","F","T"," ","D","Y">>, <<"M","I","C","R","O","S","O","F","T"," ","D","Y","N","A","M","I","C","S">>>>,
    <<<<"M","I","C","R","O","S","O","F","T"," ","E">>, <<"M","S"," ","E","X","C","E","L">>>>,
    <<<<"M","S"," ","E","X","C","E","L">>, <<"M","S"," ","E","X","C","E","L">>>>,
    <<<<"M","I","C","R","O","S","O","F","T"," ","O","F">>, <<"M","S"," ","O","F","F","I","C","E">>>>,
    <<<<"M","I","C","R","O","S","O","F","T"," ","O","U">>, <<"M","S"," ","O","U","T","L","O","O","K">>>>,
    <<<<"M","I","C","R","O","S","O","F","T"," ","P","O">>, <<"M","S"," ","P","O","W","E","R","P","O","I","N","T">>>>,
    <<<<"M","I","C","R","O","S","O","F","T"," ","S","Q">>, <<"S","Q","L">>>>,
    <<<<"M","I","C","R","O","S","O","F","T"," ","T","R","A">>, <<"S","Q","L">>>>,
    <<<<"M","I","C","R","O","S","O","F","T"," ","T","E","A","M">>, <<"M","S"," ","T","E","A","M","S">>>>,
    <<<<"M","I","C","R","O","S","O","F","T"," ","V","I","S","I">>, <<"V","I","S","I","O">>>>,
    <<<<"M","I","C","R","O","S","O","F","T"," ","V","I","S","U","A","L"," ","C">>, <<"V","I","S","U","A","L"," ","C">>>>,
    <<<<"M","I","C","R","O","S","O","F","T"," ","V","I","S","U","A","L"," ","S">>, <<"V","I","S","U","A","L"," ","S","T","U","D","I","O">>>>,
    <<<<"M","I","C","R","O","S","O","F","T"," ","W","I">>, <<"W","I","N","D","O","W","S">>>>,
    <<<<"M","I","C","R","O","S","O","F","T"," ","W","O">>, <<"M","S"," ","W","O","R","D">>>>,
    <<<<"M","O","B","I","L","E"," ">>, <<"M","O","B","I","L","E">>>>,
    <<<<"M","V","C"," ">>, <<"M","V","C">>>>,
    <<<<"M","Y","S","Q">>, <<"S","Q","L">>>>,
    <<<<"N","A","T","U","R","A","L"," ","L","A">>, <<"N","L","P">>>>,
    <<<<"N","E","T","B","E","A","N">>, <<"N","E","T","B","E","A","N","S">>>>,
    <<<<"N","E","U","R","A","L"," ","N","E">>, <<"N","E","U","R","A","L"," ","N","E","T">>>>,
    <<<<"N","O","D","E">>, <<"N","O","D","E"," ","J","S">>>>,
    <<<<"O","B","J","E","C","T"," ","O","R","I">>, <<"O","O","P">>>>,
    <<<<"O","P","E","R","A","T","I">>, <<"O","S">>>>,
    <<<<"O","R","A","C","L","E"," ">>, <<"O","R","A","C","L","E">>>>,
    <<<<"P","H","P"," ">>, <<"P","H","P">>>>,
    <<<<"P","O","S","T","G","R">>, <<"S","Q","L">>>>,
    <<<<"P","R","O","J","E","C","T"," ","M","A","N","A","G","E","M","E","N","T">>, <<"P","R","O","J","E","C","T"," ","M","A","N","A","G","E","M","E","N","T">>>>,
    <<<<"P","Y","T","H">>, <<"P","Y","T","H","O","N">>>>,
    <<<<"P","Y","T","O","R">>, <<"P","Y","T","O","R","C","H">>>>,
    <<<<"Q","L","I","K">>, <<"Q","L","I","K">>>>,
    <<<<"R"," ">>, <<"R">>>>,
    <<<<"R","E","A","C","T">>, <<"R","E","A","C","T"," ","J","S">>>>,
    <<<<"R","E","C","O","V","E","R","Y">>, <<"R","E","C","O","V","E","R","Y">>>>,
    <<<<"R","E","G","R","E","S","S","I","O","N">>, <<"R","E","G","R","E","S","S","I","O","N">>>>,
    <<<<"R","E","G","U","L","A","R"," ","E","X","P">>, <<"R","E","G","U","L","A","R"," ","E","X","P","R","E","S","S","I","O","N">>>>,
    <<<<"R","E","L","A","T","I","O","N","A","L">>, <<"S","Q","L">>>>,
    <<<<"R","E","S","T"," ">>, <<"A","P","I">>>>,
    <<<<"R","U","B","Y">>, <<"R","U","B","Y">>>>,
    <<<<"S","A","G","E"," ">>, <<"S","A","G","E">>>>,
    <<<<"S","A","L","E","S","F","O","R","C","E">>, <<"S","A","L","E","S","F","O","R","C","E">>>>,
    <<<<"S","A","L","E","S"," ">>, <<"S","A","L","E","S">>>>,
    <<<<"S","A","P"," ">>, <<"S","A","P">>>>,
    <<<<"S","A","S"," ">>, <<"S","A","S">>>>,
    <<<<"S","C","A","L","A"," ">>, <<"S","C","A","L","A">>>>,
    <<<<"S","C","I","K","I">>, <<"S","C","I","K","I","T","L","E","A","R","N">>>>,
    <<<<"S","C","O"," ">>, <<"S","C","O">>>>,
    <<<<"S","C","R","U","M">>, <<"S","C","R","U","M">>>>,
    <<<<"S","E","A","G","A","T","E"," ">>, <<"S","E","A","G","A","T","E">>>>,
    <<<<"S","E","A","R","C","H"," ","E","N","G">>, <<"S","E","O">>>>,
    <<<<"S","E","C","U","R","I","T","Y">>, <<"S","E","C","U","R","I","T","Y">>>>,
    <<<<"S","E","R","V","E","R"," ">>, <<"S","E","R","V","E","R"," ">>>>,
    <<<<"S","H","E","L","L"," ">>, <<"S","H","E","L","L">>>>,
    <<<<"S","I","E","B","E","L"," ">>, <<"S","I","E","B","E","L">>>>,
    <<<<"S","I","E","M","E","N">>, <<"S","I","E","M","E","N","S">>>>,
    <<<<"S","N","O","W","F","L","A","K","E">>, <<"S","N","O","W","F","L","A","K","E">>>>,
    <<<<"S","O","A"," ">>, <<"S","O","A">>>>,
    <<<<"S","O","A","P"," ">>, <<"S","O","A","P">>>>,
    <<<<"S","O","C","I","A","L"," ","M","E","D">>, <<"S","O","C","I","A","L"," ","M","E","D","I","A">>>>,
    <<<<"S","O","F","T","W","A","R","E"," ">>, <<"S","W"," ","D","E","V","E","L","O","P","M","E","N","T">>>>,
    <<<<"S","P","R","I","N","G"," ">>, <<"S","P","R","I","N","G">>>>,
    <<<<"S","Q","L"," ">>, <<"S","Q","L">>>>,
    <<<<"S","T","R","U","T","S">>, <<"S","T","R","U","T","S">>>>,
    <<<<"S","U","B","L","I","M">>, <<"S","U","B","L","I","M","E"," ","T","E","X","T">>>>,
    <<<<"T","A","B","L","E">>, <<"T","A","B","L","E","A","U">>>>,
    <<<<"T","E","N","S","O","R","F">>, <<"T","E","N","S","O","R","F","L","O","W">>>>,
    <<<<"T","E","R","A","D","A">>, <<"T","E","R","A","D","A","T","A">>>>,
    <<<<"T","E","S","T"," ">>, <<"T","E","S","T">>>>,
    <<<<"T","I","B","C","O"," ">>, <<"T","I","B","C","O">>>>,
    <<<<"U","B","U","N","T">>, <<"U","B","U","N","T","U">>>>,
    <<<<"U","I"," ">>, <<"U","I">>>>,
    <<<<"U","S","E","R"," ","I">>, <<"U","I">>>>,
    <<<<"U","N","I","T"," ","T">>, <<"T","E","S","T">>>>,
    <<<<"U","N","I","X">>, <<"U","N","I","X">>>>,
    <<<<"V","I","S","U","A","L"," ","B","A","S","I","C">>, <<"V","I","S","U","A","L"," ","B","A","S","I","C">>>>,
    <<<<"V","M","W","A","R","E">>, <<"V","M","W","A","R","E">>>>,
    <<<<"V","U","L","N","E","R","A","B","I","L","I","T","Y">>, <<"V","U","L","N","E","R","A","B","I","L","I","T","Y"," ","M","A","N","A","G","E","M","E","N","T">>>>,
    <<<<"W","A","N"," ">>, <<"W","A","N">>>>,
    <<<<"W","E","B"," ","A","P","I">>, <<"A","P","I">>>>,
    <<<<"W","E","B"," ">>, <<"W","E","B">>>>,
    <<<<"W","E","B","S","P","H","E","R","E">>, <<"W","E","B","S","P","H","E","R","E">>>>,
    <<<<"W","I","N","D","O","W","S"," ","A","Z">>, <<"A","Z","U","R","E">>>>,
    <<<<"W","I","N"," ">>, <<"W","I","N","D","O","W","S">>>>,
    <<<<"W","I","N","D","O","W">>, <<"W","I","N","D","O","W","S">>>>,
    <<<<"Z","E","N","D">>, <<"Z","E","N","D">>>>,
    <<<<"P","E","R","S","O","N","A","L"," ","H","O","M","E"," ","P","A","G","E">>, <<"P","H","P">>>>
  >>

---------------------------------------------------------------------------
(* Helpers *)

\* a lookup built from the dictionary, variant to canonical tag, in which a
\* later entry overwrites an earlier one: x becomes the tag of the last entry
\* listing it
replace_entries_last(x, replacement_mapping, k) ==
  LET listing == {j \in k..Len(replacement_mapping) :
                    \E n \in DOMAIN replacement_mapping[j].to_replace :
                      replacement_mapping[j].to_replace[n] = x}
  IN IF listing = {} THEN x
     ELSE replacement_mapping[CHOOSE a \in listing : \A b \in listing : b <= a].replace_by

\* one element through the entries k.. of "for replace_by, to_replace in
\* replacement_mapping.items()": every entry is applied, in dictionary order,
\* to what the entries before it left.  An entry that leaves x as it is is
\* stepped over, so the evaluation goes straight to the next entry that changes
\* x and carries on after it.
RECURSIVE replace_entries(_, _, _)
replace_entries(x, replacement_mapping, k) ==
  LET changing == {j \in k..Len(replacement_mapping) :
                     replace_value(x, replacement_mapping[j].to_replace,
                                   replacement_mapping[j].replace_by) # x}
  IN IF changing = {} THEN x
     ELSE LET j == CHOOSE a \in changing : \A b \in changing : a <= b
          IN replace_entries(
               replace_value(x, replacement_mapping[j].to_replace,
                             replacement_mapping[j].replace_by),
               replacement_mapping, j + 1)

\* replace_series: result = s.copy(), then one result.replace(...) per entry
replace_series(s, replacement_mapping) ==
  [i \in DOMAIN s |-> Row(s[i].index, replace_entries(s[i].value, replacement_mapping, 1))]

\* "result = s" in place of "result = s.copy()": result is the object of s
no_copy(id) == id

\* Series.copy() of the Series living in object id: a new object
copy(id) == id + 1

\* the Series objects at the return of replace_series.  Object 1 is the
\* caller's s, result is the object s.copy() gave, and every
\* result.replace(..., inplace=True) writes to the object result names.
replace_series_objects(s, replacement_mapping) ==
  LET result == copy(1)
  IN [id \in {1, result} |->
        IF id = result THEN replace_series(s, replacement_mapping) ELSE s]

\* replace_if_startswith
replace_if_startswith(x, pattern, replace_by) ==
  IF ~IsStr(x) THEN x
  ELSE IF StartsWith(x, pattern) THEN replace_by
  ELSE x

\* the index labels of a Series, ascending (groupby sorts its keys)
RECURSIVE SortedKeys(_)
SortedKeys(K) ==
  IF K = {} THEN <<>>
  ELSE LET m == CHOOSE a \in K : \A b \in K : a <= b
       IN <<m>> \o SortedKeys(K \ {m})

IndexLabels(s) == {s[i].index : i \in DOMAIN s}

\* agg(set): the set of the values carrying index label k
Group(s, k) == {s[i].value : i \in {j \in DOMAIN s : s[j].index = k}}

\* .str.join(";") of one set: NaN when an element is not a string, otherwise
\* the elements joined in the set's iteration order, which is any order
JoinedGroup(G) ==
  IF \E v \in G : ~IsStr(v) THEN {NaN}
  ELSE {Join(p, <<";">>) : p \in Orders(G)}

\* the Series that can come out of str.join for the groups keys[k..]
RECURSIVE JoinedRows(_, _, _)
JoinedRows(s, keys, k) ==
  IF k > Len(keys) THEN {<<>>}
  ELSE {<<Row(keys[k], v)>> \o rest :
          v \in JoinedGroup(Group(s, keys[k])), rest \in JoinedRows(s, keys, k + 1)}

\* squeeze_series: reset_index().groupby("index").agg(set).squeeze().str.join(";")
\* A frame of one row and one column squeezes to a scalar (the set), which has
\* no .str attribute.  The argument sep is not used by the code.
squeeze_series(s, sep) ==
  LET keys == SortedKeys(IndexLabels(s))
  IN IF Len(keys) = 1 THEN {AttributeError}
     ELSE {Series(rows) : rows \in JoinedRows(s, keys, 1)}

\* an absent sep argument (None); "if not sep" also takes "" for absent
NoSep == {}

---------------------------------------------------------------------------
(* Dates *)

Digits == {"0", "1", "2", "3", "4", "5", "6", "7", "8", "9"}

\* a number with the text str() gives for it
Number(text) == <<"Num">> \o text

IsNumber(x) == x # <<>> /\ Head(x) = "Num"

\* str(s): a string is itself, nan is "nan", a number is its text
py_str(s) ==
  IF s = NaN THEN <<"n", "a", "n">>
  ELSE IF IsNumber(s) THEN Tail(s)
  ELSE s

\* re.sub("[/]", "-", x)
SlashToDash(x) == [i \in DOMAIN x |-> IF x[i] = "/" THEN "-" ELSE x[i]]

\* the character at position i of s is one of chars
At(s, i, chars) == i \in DOMAIN s /\ s[i] \in chars

\* the positions a piece of a date pattern can end before, matched from
\* position i: "Y" is (\d{4}), "M" is ((0?[1-9])|(1[0-2])), "-" is itself
Atom(s, piece, i) ==
  CASE piece = "Y" ->
         IF \A k \in i..(i + 3) : At(s, k, Digits) THEN {i + 4} ELSE {}
    [] piece = "M" ->
         (IF At(s, i, Digits \ {"0"}) THEN {i + 1} ELSE {})
         \cup (IF At(s, i, {"0"}) /\ At(s, i + 1, Digits \ {"0"}) THEN {i + 2} ELSE {})
         \cup (IF At(s, i, {"1"}) /\ At(s, i + 1, {"0", "1", "2"}) THEN {i + 2} ELSE {})
    [] piece = "-" ->
         IF At(s, i, {"-"}) THEN {i + 1} ELSE {}

\* the positions a pattern can end before, matched from position i
RECURSIVE MatchEnds(_, _, _)
MatchEnds(s, d_pattern, i) ==
  IF d_pattern = <<>> THEN {i}
  ELSE UNION {MatchEnds(s, Tail(d_pattern), j) : j \in Atom(s, Head(d_pattern), i)}

\* re.match(d_pattern, s): the pattern matches a prefix of s
re_match(d_pattern, s) == MatchEnds(s, d_pattern, 1) # {}

\* the list patterns of normalize_date, in its order
patterns ==
  << [d_format |-> "yyyy-mm-dd", d_pattern |-> <<"Y", "-", "M", "-", "M">>],
     [d_format |-> "dd-mm-yyyy", d_pattern |-> <<"M", "-", "M", "-", "Y">>],
     [d_format |-> "mm-yyyy",    d_pattern |-> <<"M", "-", "Y">>],
     [d_format |-> "yyyy-mm",    d_pattern |-> <<"Y", "-", "M">>],
     [d_format |-> "yyyy",       d_pattern |-> <<"Y">>] >>

\* str.zfill(width)
RECURSIVE zfill(_, _)
zfill(x, width) == IF Len(x) >= width THEN x ELSE zfill(<<"0">> \o x, width)

Str(v) == [kind |-> "str", value |-> v]

ValueError == [kind |-> "ValueError"]

\* get_date_by_format: s.split("-") is unpacked into as many names as the
\* format has parts, which raises ValueError for any other number of parts
get_date_by_format(s, d_format) ==
  LET parts == Split(s, {"-"})
      full_date(y, m, d) == Str(zfill(y, 4) \o <<"-">> \o zfill(m, 2) \o <<"-">> \o zfill(d, 2))
      zero_one == <<"0", "1">>
  IN CASE d_format = "yyyy" -> full_date(s, zero_one, zero_one)
       [] d_format = "mm-yyyy" ->
            IF Len(parts) = 2 THEN full_date(parts[2], parts[1], zero_one) ELSE ValueError
       [] d_format = "yyyy-mm" ->
            IF Len(parts) = 2 THEN full_date(parts[1], parts[2], zero_one) ELSE ValueError
       [] d_format = "dd-mm-yyyy" ->
            IF Len(parts) = 3 THEN full_date(parts[3], parts[2], parts[1]) ELSE ValueError
       [] d_format = "yyyy-mm-dd" ->
            IF Len(parts) = 3 THEN full_date(parts[1], parts[2], parts[3]) ELSE ValueError

DefaultDate == <<"0", "0", "0", "1", "-", "0", "1", "-", "0", "1">>

\* normalize_date: the first pattern that matches decides the format
normalize_date(s) ==
  LET x == SlashToDash(Strip(py_str(s)))
      matching == {k \in DOMAIN patterns : re_match(patterns[k].d_pattern, x)}
  IN IF matching = {} THEN Str(DefaultDate)
     ELSE get_date_by_format(
            x, patterns[CHOOSE a \in matching : \A b \in matching : a <= b].d_format)

---------------------------------------------------------------------------
(* Field pipelines: each gives the set of results the call can produce *)

CityDefaultSep == {"-", ",", ";", "(", "/", "["}

\* locations of normalize_city_series: the token stream before replace_series
city_locations(col, delims) ==
  replace_list(
    replace_regex(
      str_upper(str_strip(str_split_explode(col.rows, delims))),
      {")", "]", "?"}),
    <<EmptyStr>>, NaN)

normalize_city_series(col, sep) ==
  LET delims == IF sep = NoSep THEN CityDefaultSep ELSE sep
  IN IF ~StrAccessorOK(col) THEN {AttributeError}
     ELSE squeeze_series(
            replace_series(city_locations(col, delims), city_replacement_mapping), <<";">>)

CountryDefaultSep == {"-", ",", ";", "(", "/", "["}

\* locations of normalize_country_series: the token stream before replace_series
country_locations(col, delims) ==
  replace_list(
    str_upper(str_strip(str_split_explode(col.rows, delims))),
    <<EmptyStr>>, NaN)

normalize_country_series(col, sep) ==
  LET delims == IF sep = NoSep THEN CountryDefaultSep ELSE sep
  IN IF ~StrAccessorOK(col) THEN {AttributeError}
     ELSE squeeze_series(
            replace_series(country_locations(col, delims), country_replacement_mapping), <<";">>)

ListDefaultSep == {",", ";"}

normalize_str_separated_series(s, sep) ==
  LET delims == IF sep = NoSep THEN ListDefaultSep ELSE sep
  IN IF ~StrAccessorOK(s) THEN {AttributeError}
     ELSE squeeze_series(str_upper(str_strip(str_split_explode(s.rows, delims))), <<";">>)

SkillsDefaultSep == {";", ",", "(", "/", "&"}

\* skills of normalize_skills_series as first assigned: the token stream
\* before replace_series
skills_exploded(col, delims) ==
  replace_list(
    str_upper(str_strip(
      replace_regex(
        replace_regex(
          replace_regex(str_split_explode(col.rows, delims), {")", "]", "?", "."}),
          {"\""}),
        {"'"}))),
    <<EmptyStr>>, NaN)

\* the token stream of normalize_skills_series before squeeze_series
skills_tokens(col, sep) ==
  LET delims == IF sep = NoSep THEN SkillsDefaultSep ELSE sep
  IN str_strip(str_split_explode(
       replace_series(skills_exploded(col, delims), skills_replacement_mapping), {";"}))

normalize_skills_series(col, sep) ==
  IF ~StrAccessorOK(col) THEN {AttributeError}
  ELSE squeeze_series(skills_tokens(col, sep), <<";">>)

\* one element through the rules k.. of "for k, v in replacement_dict.items()":
\* every rule is applied, in declaration order, to what the rules before it
\* left.  A rule that leaves x as it is is stepped over, so the evaluation
\* goes straight to the next rule that changes x and carries on after it.
RECURSIVE prefix_rules(_, _, _)
prefix_rules(x, rules, k) ==
  LET changing == {j \in k..Len(rules) :
                     replace_if_startswith(x, rules[j][1], rules[j][2]) # x}
  IN IF changing = {} THEN x
     ELSE LET j == CHOOSE a \in changing : \A b \in changing : a <= b
          IN prefix_rules(replace_if_startswith(x, rules[j][1], rules[j][2]), rules, j + 1)

\* the loop of s.apply(...) over the whole Series
prefix_loop(s, rules) ==
  [i \in DOMAIN s |-> Row(s[i].index, prefix_rules(s[i].value, rules, 1))]

\* normalize_skills_series_extra after its first step returned the Series base
skills_extra_tail(base) ==
  squeeze_series(prefix_loop(str_split_explode(base.rows, {";"}), replacement_dict), <<";">>)

normalize_skills_series_extra(s, sep) ==
  UNION {IF base.kind = "Series" THEN skills_extra_tail(base) ELSE {base} :
           base \in normalize_skills_series(s, sep)}

---------------------------------------------------------------------------
(* Inputs *)

\* longest column
MaxRows == 3

\* the index labels of a Series of n rows: the RangeIndex 0..n-1 of a frame
\* as it is read, the same labels in reverse order, and labels of which the
\* first two are equal
IndexLabelings(n) ==
  { [i \in 1..n |-> i - 1],
    [i \in 1..n |-> n - i],
    [i \in 1..n |-> IF i <= 2 THEN 0 ELSE i - 2] }

\* the Series of n rows over the given values
Streams(cells, n) ==
  {[i \in 1..n |-> Row(labels[i], values[i])] :
     labels \in IndexLabelings(n), values \in [1..n -> cells]}

\* object columns over the given cells, and the float64 columns read from
\* a CSV column that has no value at all
Columns(cells) ==
  UNION {{[dtype |-> "object", rows |-> r] : r \in Streams(cells, n)}
         \cup {[dtype |-> "float64", rows |-> r] : r \in Streams({NaN}, n)} :
         n \in 0..MaxRows}

S_Milano_Rozzano == <<"M","i","l","a","n","o","/","R","o","z","z","a","n","o">>

S_Rozzano_comma == <<"R","o","z","z","a","n","o",",">>

S_CH == <<"C","H">>

S_london_UK == <<"l","o","n","d","o","n",","," ","U","K">>

S_a_semi_b_comma_a == <<"a",";","b",",","a">>

S_REST == <<"R","E","S","T">>

S_API_GATEWAY_REST == <<"A","P","I"," ","G","A","T","E","W","A","Y",","," ","R","E","S","T">>

S_ISO_27001 == <<"I","S","O"," ","2","7","0","0","1">>

S_DATA_MINING == <<"D","A","T","A"," ","M","I","N","I","N","G">>

S_AMAZON_WEB_AWS == <<"A","M","A","Z","O","N"," ","W","E","B",","," ","A","W","S">>

S_Milano_qmark == <<"M","i","l","a","n","o"," ","?">>

S_comma == <<",">>

S_AMAZON_WEB == <<"A","M","A","Z","O","N"," ","W","E","B">>

CityCells == {NaN, S_Milano_Rozzano, S_Rozzano_comma, S_Milano_qmark}

CountryCells == {NaN, S_CH, S_london_UK}

ListCells == {NaN, Num, S_a_semi_b_comma_a, S_comma}

SkillsCells == {NaN, S_REST, S_API_GATEWAY_REST, S_ISO_27001}

SkillsExtraCells == {NaN, S_DATA_MINING, S_AMAZON_WEB_AWS, S_AMAZON_WEB}

S_MILANO == <<"M","I","L","A","N","O">>

S_ROZZANO == <<"R","O","Z","Z","A","N","O">>

\* a replacement_mapping a caller can hand to replace_series: MILANO and
\* ROZZANO are each listed under two canonical tags, and the tag IT is itself
\* a variant of a later entry
ambiguous_mapping ==
  << [replace_by |-> <<"M","I","L","A","N">>, to_replace |-> <<S_MILANO>>],
     [replace_by |-> <<"I","T">>, to_replace |-> <<S_MILANO, S_ROZZANO>>],
     [replace_by |-> <<"E","U">>, to_replace |-> <<S_ROZZANO, <<"I","T">>>>] >>

\* the exact-match tables by name
Table(name) ==
  CASE name = "city" -> city_replacement_mapping
    [] name = "country" -> country_replacement_mapping
    [] name = "skills" -> skills_replacement_mapping
    [] name = "ambiguous" -> ambiguous_mapping

\* the tables the pipelines build
TableNames == {"city", "country", "skills"}

\* the tables replace_series is called with
ArgTables == TableNames \cup {"ambiguous"}

\* every variant a table lists
Variants(mapping) ==
  UNION {{mapping[k].to_replace[j] : j \in DOMAIN mapping[k].to_replace} : k \in DOMAIN mapping}

\* columns of two rows: a cell that is exactly a variant of the table, and a
\* null cell
VariantColumns(mapping) ==
  {[dtype |-> "object", rows |-> <<Row(0, v), Row(1, NaN)>>] : v \in Variants(mapping)}

\* every string a table mentions: its variants and its canonical tags
TableTokens(mapping) ==
  UNION {{mapping[k].replace_by} \cup {mapping[k].to_replace[j] : j \in DOMAIN mapping[k].to_replace} :
           k \in DOMAIN mapping}

StreamTokens == {NaN, S_MILANO, S_ROZZANO, S_REST}

\* token streams handed to replace_series: every string of the table on its
\* own, and every short stream over StreamTokens
TokenStreams(mapping) ==
  {<<Row(0, v)>> : v \in TableTokens(mapping)}
  \cup UNION {Streams(StreamTokens, n) : n \in 0..MaxRows}

\* sep as the caller gives it: absent, or a delimiter class
Seps == {NoSep, {","}}

\* sep as the caller gives it to squeeze_series: a string
JoinSeps == {<<";">>, <<",">>}

\* values handed to normalize_date
DateInputs ==
  { NaN,
    Number(<<"2","0","2","0",".","0">>),
    <<"a","b","c">>,
    <<"2","0","2","0">>,
    <<"2","0","2","0","1">>,
    <<"2","0","2","0","-","1">>,
    <<"1","-","2","0","2","0">>,
    <<"5","/","1","/","2","0","2","0">>,
    <<"3","1","-","1","2","-","2","0","2","0">>,
    <<" ","2","0","2","0","-","0","1","-","0","5"," ">>,
    <<"2","0","2","0","-","1","-","5">>,
    <<"2","0","2","0","-","0","1","-","3","1">>,
    <<"2","0","2","0","-","1","3","-","0","1">>,
    <<"2","0","2","0","-","0","1","-","0","1","-","0","5">>,
    <<"2","0","2","0","-","0","1","-","0","1","5">> }

---------------------------------------------------------------------------
(* State machine: one call at a time, its result kept until it is dropped *)

NoColumn == [dtype |-> "object", rows |-> <<>>]

NoCall == [fn |-> "none", col |-> NoColumn, sep |-> NoSep, table |-> "none"]

NoResult == [kind |-> "none", rows |-> <<>>]

NoHeap == [arg |-> <<>>]

Pipelines ==
  {"normalize_city_series", "normalize_country_series", "normalize_str_separated_series",
   "normalize_skills_series", "normalize_skills_series_extra"}

Init ==
  /\ call = NoCall
  /\ out = NoResult
  /\ heap = NoHeap
  /\ first_out = NoResult
  /\ pc = 0
  /\ running = "none"
  /\ log = <<>>

\* the results a call c can give when its Series argument holds rows
Invoke(c, rows) ==
  LET col == [dtype |-> c.col.dtype, rows |-> rows]
  IN CASE c.fn = "normalize_city_series" -> normalize_city_series(col, c.sep)
       [] c.fn = "normalize_country_series" -> normalize_country_series(col, c.sep)
       [] c.fn = "normalize_str_separated_series" -> normalize_str_separated_series(col, c.sep)
       [] c.fn = "normalize_skills_series" -> normalize_skills_series(col, c.sep)
       [] c.fn = "normalize_skills_series_extra" -> normalize_skills_series_extra(col, c.sep)
       [] c.fn = "replace_series" ->
            {Series(replace_series_objects(rows, Table(c.table))[copy(1)])}
       [] c.fn = "squeeze_series" -> squeeze_series(rows, c.join_sep)

\* the caller's objects after the call c on a Series holding rows.  Every
\* Series method of the pipelines and of squeeze_series returns a new object;
\* replace_series writes in place, to the object it names result, and only
\* reads the dictionary.
HeapAfter(c, rows) ==
  IF c.fn = "replace_series"
  THEN [arg |-> replace_series_objects(rows, Table(c.table))[1], mapping |-> Table(c.table)]
  ELSE [arg |-> rows]

CallCity ==
  /\ call = NoCall
  /\ \E col \in Columns(CityCells) \cup VariantColumns(city_replacement_mapping), sep \in Seps :
       LET c == [fn |-> "normalize_city_series", col |-> col, sep |-> sep, table |-> "none"]
       IN /\ call' = c
          /\ out' \in Invoke(c, col.rows)
          /\ heap' = HeapAfter(c, col.rows)
          /\ first_out' = NoResult
          /\ UNCHANGED <<pc, running, log>>

CallCountry ==
  /\ call = NoCall
  /\ \E col \in Columns(CountryCells) \cup VariantColumns(country_replacement_mapping), sep \in Seps :
       LET c == [fn |-> "normalize_country_series", col |-> col, sep |-> sep, table |-> "none"]
       IN /\ call' = c
          /\ out' \in Invoke(c, col.rows)
          /\ heap' = HeapAfter(c, col.rows)
          /\ first_out' = NoResult
          /\ UNCHANGED <<pc, running, log>>

CallStrSeparated ==
  /\ call = NoCall
  /\ \E col \in Columns(ListCells), sep \in Seps :
       LET c == [fn |-> "normalize_str_separated_series", col |-> col, sep |-> sep, table |-> "none"]
       IN /\ call' = c
          /\ out' \in Invoke(c, col.rows)
          /\ heap' = HeapAfter(c, col.rows)
          /\ first_out' = NoResult
          /\ UNCHANGED <<pc, running, log>>

CallSkills ==
  /\ call = NoCall
  /\ \E col \in Columns(SkillsCells) \cup VariantColumns(skills_replacement_mapping), sep \in Seps :
       LET c == [fn |-> "normalize_skills_series", col |-> col, sep |-> sep, table |-> "none"]
       IN /\ call' = c
          /\ out' \in Invoke(c, col.rows)
          /\ heap' = HeapAfter(c, col.rows)
          /\ first_out' = NoResult
          /\ UNCHANGED <<pc, running, log>>

CallSkillsExtra ==
  /\ call = NoCall
  /\ \E col \in Columns(SkillsExtraCells), sep \in Seps :
       LET c == [fn |-> "normalize_skills_series_extra", col |-> col, sep |-> sep, table |-> "none"]
       IN /\ call' = c
          /\ out' \in Invoke(c, col.rows)
          /\ heap' = HeapAfter(c, col.rows)
          /\ first_out' = NoResult
          /\ UNCHANGED <<pc, running, log>>

CallReplaceSeries ==
  /\ call = NoCall
  /\ \E name \in ArgTables :
       \E s \in TokenStreams(Table(name)) :
         LET c == [fn |-> "replace_series", col |-> [dtype |-> "object", rows |-> s],
                   sep |-> NoSep, table |-> name]
         IN /\ call' = c
            /\ out' \in Invoke(c, s)
            /\ heap' = HeapAfter(c, s)
            /\ first_out' = NoResult
          /\ UNCHANGED <<pc, running, log>>

CallSqueezeSeries ==
  /\ call = NoCall
  /\ \E n \in 0..MaxRows :
       \E s \in Streams(StreamTokens, n), sep \in JoinSeps :
         LET c == [fn |-> "squeeze_series", col |-> [dtype |-> "object", rows |-> s],
                   join_sep |-> sep]
         IN /\ call' = c
            /\ out' \in Invoke(c, s)
            /\ heap' = HeapAfter(c, s)
            /\ first_out' = NoResult
          /\ UNCHANGED <<pc, running, log>>

CallNormalizeDate ==
  /\ call = NoCall
  /\ \E s \in DateInputs :
       /\ call' = [fn |-> "normalize_date", s |-> s]
       /\ out' = normalize_date(s)
       /\ heap' = NoHeap
       /\ first_out' = NoResult
       /\ UNCHANGED <<pc, running, log>>

\* what the caller compares two results by: the kind of the result and, row
\* by row, the index label and the set of ';'-separated tokens
TokenSets(result) ==
  [kind |-> result.kind,
   rows |-> [j \in DOMAIN result.rows |->
               [index |-> result.rows[j].index,
                tokens |-> LET q == Split(result.rows[j].value, {";"})
                           IN {q[k] : k \in DOMAIN q}]]]

\* the caller keeps the token sets of the result and makes the same call
\* again, on the objects the first call left
CallAgain ==
  /\ call.fn \in Pipelines \cup {"replace_series", "squeeze_series"}
  /\ first_out = NoResult
  /\ first_out' = TokenSets(out)
  /\ out' \in Invoke(call, heap.arg)
  /\ heap' = HeapAfter(call, heap.arg)
  /\ UNCHANGED <<call, pc, running, log>>

\* the statements of the body of clean_all, in source order
clean_all_statements ==
  <<"clean_organizations", "clean_candidates", "clean_jobs",
    "clean_emp_histories", "clean_applications", "clean_applications">>

Started(cleaner) == [event |-> "start", cleaner |-> cleaner]

Finished(cleaner) == [event |-> "finish", cleaner |-> cleaner]

NoneResult == [kind |-> "None"]

Exception == [kind |-> "Exception"]

\* clean_all() is called: its first statement is next
clean_all ==
  /\ call = NoCall
  /\ call' = [fn |-> "clean_all"]
  /\ out' = NoResult
  /\ heap' = NoHeap
  /\ first_out' = NoResult
  /\ pc' = 1
  /\ running' = "none"
  /\ log' = <<>>

\* the next statement of clean_all calls its cleaner
StartCleaner ==
  /\ call.fn = "clean_all"
  /\ out = NoResult
  /\ running = "none"
  /\ pc \in DOMAIN clean_all_statements
  /\ running' = clean_all_statements[pc]
  /\ log' = Append(log, Started(clean_all_statements[pc]))
  /\ UNCHANGED <<call, out, heap, first_out, pc>>

\* the cleaner in progress writes its table and returns: clean_all moves to
\* its next statement
FinishCleaner ==
  /\ call.fn = "clean_all"
  /\ running # "none"
  /\ running' = "none"
  /\ log' = Append(log, Finished(running))
  /\ pc' = pc + 1
  /\ UNCHANGED <<call, out, heap, first_out>>

\* the cleaner in progress raises (its raw file cannot be read, or one of
\* its pipelines raises): clean_all has no handler, so the exception leaves
\* clean_all and the statements after it do not run
CleanerRaises ==
  /\ call.fn = "clean_all"
  /\ running # "none"
  /\ running' = "none"
  /\ out' = Exception
  /\ UNCHANGED <<call, heap, first_out, pc, log>>

\* past its last statement clean_all returns None
clean_all_returns ==
  /\ call.fn = "clean_all"
  /\ out = NoResult
  /\ pc = Len(clean_all_statements) + 1
  /\ out' = NoneResult
  /\ UNCHANGED <<call, heap, first_out, pc, running, log>>

\* the caller is done with the result
Return ==
  /\ call # NoCall
  /\ call.fn = "clean_all" => out # NoResult
  /\ call' = NoCall
  /\ out' = NoResult
  /\ heap' = NoHeap
  /\ first_out' = NoResult
  /\ pc' = 0
  /\ running' = "none"
  /\ log' = <<>>

Next ==
  \/ CallCity
  \/ CallCountry
  \/ CallStrSeparated
  \/ CallSkills
  \/ CallSkillsExtra
  \/ CallReplaceSeries
  \/ CallSqueezeSeries
  \/ CallNormalizeDate
  \/ CallAgain
  \/ clean_all
  \/ StartCleaner
  \/ FinishCleaner
  \/ CleanerRaises
  \/ clean_all_returns
  \/ Return

Spec == Init /\ [][Next]_vars

---------------------------------------------------------------------------
(* Vocabulary of the properties *)

\* no two rows of the column carry the same index label
DistinctLabels(col) ==
  \A i, j \in DOMAIN col.rows : i # j => col.rows[i].index # col.rows[j].index

\* the output value carrying index label k
OutputAt(result, k) ==
  result.rows[CHOOSE j \in DOMAIN result.rows : result.rows[j].index = k].value

\* the ';'-separated tokens of an output value, as a sequence and as a set
OutputTokens(v) == Split(v, {";"})

OutputTokenSet(v) == {OutputTokens(v)[k] : k \in DOMAIN OutputTokens(v)}

NoRepeat(tokens) ==
  \A a, b \in DOMAIN tokens : a # b => tokens[a] # tokens[b]

Count(tokens, t) == Cardinality({k \in DOMAIN tokens : tokens[k] = t})

\* the entries of an exact-match table that list x as a variant
EntriesListing(x, mapping) ==
  {k \in DOMAIN mapping : \E j \in DOMAIN mapping[k].to_replace : mapping[k].to_replace[j] = x}

\* the delimiter class a pipeline call splits on
DelimsOf(c) ==
  IF c.sep # NoSep THEN c.sep
  ELSE CASE c.fn = "normalize_city_series" -> CityDefaultSep
         [] c.fn = "normalize_country_series" -> CountryDefaultSep
         [] c.fn = "normalize_str_separated_series" -> ListDefaultSep
         [] OTHER -> SkillsDefaultSep

\* the characters a pipeline deletes from its pieces
PunctOf(fn) ==
  CASE fn = "normalize_city_series" -> {")", "]", "?"}
    [] fn \in {"normalize_skills_series", "normalize_skills_series_extra"} ->
         {")", "]", "?", ".", "\"", "'"}
    [] OTHER -> {}

\* the exact-match table of a pipeline (none for the generic list pipeline)
TableOf(fn) ==
  CASE fn = "normalize_city_series" -> city_replacement_mapping
    [] fn = "normalize_country_series" -> country_replacement_mapping
    [] fn \in {"normalize_skills_series", "normalize_skills_series_extra"} ->
         skills_replacement_mapping
    [] OTHER -> <<>>

\* the pieces of a cell, trimmed and upper-cased, the empty ones left out
Pieces(cell, delims) ==
  LET p == Split(cell, delims)
  IN {Upper(Strip(p[k])) : k \in {n \in DOMAIN p : Strip(p[n]) # EmptyStr}}

\* the first prefix rule, in declaration order, that x starts with (0 if none)
FirstPrefixRule(x) ==
  LET hits == {k \in DOMAIN replacement_dict : StartsWith(x, replacement_dict[k][1])}
  IN IF hits = {} THEN 0 ELSE CHOOSE a \in hits : \A b \in hits : a <= b

---------------------------------------------------------------------------
(* Properties *)

\* C1: each of the five pipelines returns exactly one output value per input
\* row, for every input column, and the i-th output value belongs to the i-th
\* input row.
C1_RowCountInvariance ==
  call.fn \in Pipelines =>
    /\ out.kind = "Series"
    /\ Len(out.rows) = Len(call.col.rows)
    /\ \A i \in DOMAIN out.rows : out.rows[i].index = call.col.rows[i].index

\* C2: in each of the five pipelines a row whose cell is null is represented in
\* the output and its output is null, whatever the other rows hold; the null
\* token passes every prefix rule unchanged.
C2_NullPropagation ==
  /\ call.fn \in Pipelines =>
       \A i \in DOMAIN call.col.rows :
         call.col.rows[i].value = NaN =>
           /\ out.kind = "Series"
           /\ \E j \in DOMAIN out.rows :
                /\ out.rows[j].index = call.col.rows[i].index
                /\ out.rows[j].value = NaN
  /\ call.fn = "normalize_skills_series_extra" =>
       \A k \in DOMAIN replacement_dict :
         replace_if_startswith(NaN, replacement_dict[k][1], replacement_dict[k][2]) = NaN

\* C3: every non-null output value of every pipeline, split on ';', has no
\* repeated element, with the default delimiters and with a sep of the caller.
C3_Dedup ==
  (call.fn \in Pipelines /\ out.kind = "Series") =>
    \A j \in DOMAIN out.rows :
      out.rows[j].value # NaN => NoRepeat(OutputTokens(out.rows[j].value))

\* C4: in the base skill pipeline a token rewritten to a canonical value holding
\* ';' becomes one token per part, all in the row of the token: a cell "REST"
\* gives an output with "API" and "REST" exactly once each, a cell
\* "API GATEWAY, REST" gives exactly the tokens {"API", "REST"}.
C4_Expansion ==
  (call.fn = "normalize_skills_series" /\ DistinctLabels(call.col)) =>
    \A i \in DOMAIN call.col.rows :
      LET cell == call.col.rows[i].value
          API == <<"A","P","I">>
      IN cell \in {S_REST, S_API_GATEWAY_REST} =>
           /\ out.kind = "Series"
           /\ OutputAt(out, call.col.rows[i].index) # NaN
           /\ LET tokens == OutputTokens(OutputAt(out, call.col.rows[i].index))
              IN /\ Count(tokens, API) = 1
                 /\ Count(tokens, S_REST) = 1
                 /\ cell = S_API_GATEWAY_REST => Len(tokens) = 2

\* C5: in every pipeline a non-empty token that matches no rewrite rule is
\* kept: trimmed and upper-cased, it is one of the ';'-separated tokens of its
\* row's output, whatever the other pieces of the cell are.
C5_PassThrough ==
  (call.fn \in Pipelines /\ out.kind = "Series" /\ DistinctLabels(call.col)) =>
    \A i \in DOMAIN call.col.rows :
      IsStr(call.col.rows[i].value) =>
        \A t \in Pieces(call.col.rows[i].value, DelimsOf(call)) :
          ( /\ \A n \in DOMAIN t : t[n] \notin PunctOf(call.fn) \cup {";"}
            /\ EntriesListing(t, TableOf(call.fn)) = {}
            /\ call.fn = "normalize_skills_series_extra" => FirstPrefixRule(t) = 0 )
          => LET v == OutputAt(out, call.col.rows[i].index)
             IN v # NaN /\ t \in OutputTokenSet(v)

\* what the exact-match table makes of one token: the canonical tag of the
\* entry listing it, the token itself when no entry lists it
Canonical(t, mapping) ==
  IF EntriesListing(t, mapping) = {} THEN t
  ELSE mapping[CHOOSE k \in EntriesListing(t, mapping) : TRUE].replace_by

\* the tokens a cell should give: its non-empty pieces, punctuation deleted as
\* the pipeline deletes it, rewritten by the table, split on ';' and trimmed
ExpectedTokens(c, cell) ==
  LET p == Split(cell, DelimsOf(c))
      norm(x) == IF c.fn = "normalize_city_series"
                 THEN RemoveChars(Upper(Strip(x)), PunctOf(c.fn))
                 ELSE Upper(Strip(RemoveChars(x, PunctOf(c.fn))))
      kept == {norm(p[k]) : k \in DOMAIN p} \ {EmptyStr}
      parts(t) == LET q == Split(Canonical(t, TableOf(c.fn)), {";"})
                  IN {Strip(q[k]) : k \in DOMAIN q}
  IN UNION {parts(t) : t \in kept}

\* C6: in the city, country, generic-list and skill pipelines the pieces of a
\* non-null cell that are empty after splitting and trimming contribute no
\* token, neither an empty string nor a null: the row's output is the join of
\* the tokens of its non-empty pieces.
C6_EmptyPiecesDropped ==
  ( /\ call.fn \in Pipelines \ {"normalize_skills_series_extra"}
    /\ call.sep = NoSep
    /\ out.kind = "Series"
    /\ DistinctLabels(call.col) ) =>
    \A i \in DOMAIN call.col.rows :
      LET cell == call.col.rows[i].value
          v == OutputAt(out, call.col.rows[i].index)
      IN (IsStr(cell) /\ ExpectedTokens(call, cell) # {}) =>
           /\ v # NaN
           /\ OutputTokenSet(v) = ExpectedTokens(call, cell)

\* C7: replace_series with an exact-match table of the pipelines returns a token stream of the
\* same length and row tags, where every token equal to a variant listed under
\* a canonical tag is that canonical tag and every other token, null
\* included, is unchanged.
C7_ExactMatchRewrite ==
  (call.fn = "replace_series" /\ call.table \in TableNames) =>
    /\ out.kind = "Series"
    /\ Len(out.rows) = Len(call.col.rows)
    /\ \A i \in DOMAIN out.rows :
         LET x == call.col.rows[i].value
             listing == EntriesListing(x, Table(call.table))
         IN /\ out.rows[i].index = call.col.rows[i].index
            /\ \A k \in listing : out.rows[i].value = Table(call.table)[k].replace_by
            /\ listing = {} => out.rows[i].value = x

\* C7 witness: a stream through replace_series in which one token was rewritten
\* to its canonical tag, an unlisted token and a null were left as they were
C7_Witness ==
  /\ call.fn = "replace_series"
  /\ call.table \in TableNames
  /\ out.kind = "Series"
  /\ \E i, j, k \in DOMAIN call.col.rows :
       /\ EntriesListing(call.col.rows[i].value, Table(call.table)) # {}
       /\ out.rows[i].value # call.col.rows[i].value
       /\ IsStr(call.col.rows[j].value)
       /\ EntriesListing(call.col.rows[j].value, Table(call.table)) = {}
       /\ out.rows[j].value = call.col.rows[j].value
       /\ call.col.rows[k].value = NaN
       /\ out.rows[k].value = NaN

\* C8: in the extended skill pipeline the prefix rules are tried in declaration
\* order on every token, the first rule whose prefix the token starts with
\* replaces the whole token, and no later rule is applied to the token or to
\* its replacement.
C8_PrefixFirstMatchSinglePass ==
  ( /\ call.fn = "normalize_skills_series_extra"
    /\ call.sep = NoSep
    /\ out.kind = "Series"
    /\ DistinctLabels(call.col) ) =>
    \A base \in normalize_skills_series(call.col, call.sep) :
      \A j \in DOMAIN base.rows :
        base.rows[j].value # NaN =>
          \A t \in OutputTokenSet(base.rows[j].value) :
            LET first == FirstPrefixRule(t)
                v == OutputAt(out, base.rows[j].index)
            IN /\ v # NaN
               /\ (IF first = 0 THEN t ELSE replacement_dict[first][2]) \in OutputTokenSet(v)

\* C9: a second exact-match rewrite of a token a first pass produced gives the
\* same token, so the base skill pipeline run on its own output gives the same
\* token set in every row.
C9_Idempotence ==
  ( /\ call.fn = "normalize_skills_series"
    /\ call.sep = NoSep
    /\ out.kind = "Series"
    /\ Cardinality(IndexLabels(out.rows)) > 1 ) =>
    \A again \in normalize_skills_series([dtype |-> "object", rows |-> out.rows], NoSep) :
      /\ again.kind = "Series"
      /\ \A j \in DOMAIN out.rows :
           IF out.rows[j].value = NaN THEN again.rows[j].value = NaN
           ELSE /\ again.rows[j].value # NaN
                /\ OutputTokenSet(again.rows[j].value) = OutputTokenSet(out.rows[j].value)

\* C10: whenever the aggregation gives a number of output rows different from
\* the number of input rows, the pipeline run ends in an error and returns no
\* column.
C10_RowCountMismatchFatal ==
  (call.fn \in Pipelines /\ out.kind = "Series") =>
    Len(out.rows) = Len(call.col.rows)


\* C11: in every pipeline a cell that is not a string (a number, or a cell of
\* a column that has no string at all) is treated as a null cell: the call
\* raises no error and the output of the cell's row is null.  Stated for
\* columns of two rows or more with distinct index labels.
C11_MalformedCellsAbsorbed ==
  (call.fn \in Pipelines /\ Len(call.col.rows) > 1 /\ DistinctLabels(call.col)) =>
    \A i \in DOMAIN call.col.rows :
      ~IsStr(call.col.rows[i].value) =>
        /\ out.kind = "Series"
        /\ OutputAt(out, call.col.rows[i].index) = NaN

\* C12: a pipeline, replace_series or squeeze_series leaves the Series it was
\* given as it was, values and index, replace_series leaves the table it was
\* given as it was, and the same call made again on the same objects gives the
\* same token sets row by row.
C12_NoSideEffects ==
  call.fn \in Pipelines \cup {"replace_series", "squeeze_series"} =>
    /\ heap.arg = call.col.rows
    /\ call.fn = "replace_series" => heap.mapping = Table(call.table)
    /\ first_out # NoResult => TokenSets(out) = first_out

\* C12 witness: replace_series was called twice on a Series of which it
\* rewrites a token, and the Series of the caller still holds the token
C12_Witness ==
  /\ call.fn = "replace_series"
  /\ first_out # NoResult
  /\ \E i \in DOMAIN call.col.rows :
       /\ out.rows[i].value # call.col.rows[i].value
       /\ heap.arg[i].value = call.col.rows[i].value

\* C13: in every pipeline a row whose cell is a string that gives no token
\* (only delimiters and whitespace) has a null output, not an empty string and
\* not a string of separators.
C13_EmptyGroupYieldsNull ==
  (call.fn \in Pipelines /\ out.kind = "Series" /\ DistinctLabels(call.col)) =>
    \A i \in DOMAIN call.col.rows :
      LET cell == call.col.rows[i].value
      IN (IsStr(cell) /\ ExpectedTokens(call, cell) = {}) =>
           OutputAt(out, call.col.rows[i].index) = NaN

\* C14: every non-null value squeeze_series returns is the distinct elements
\* of the row's group joined by the string passed as sep.
C14_SqueezeUsesSep ==
  (call.fn = "squeeze_series" /\ out.kind = "Series") =>
    \A j \in DOMAIN out.rows :
      out.rows[j].value # NaN =>
        out.rows[j].value \in
          {Join(p, call.join_sep) : p \in Orders(Group(call.col.rows, out.rows[j].index))}

\* a string of the form yyyy-mm-dd: four digits, two digits, two digits
WellFormedDate(v) ==
  /\ Len(v) = 10
  /\ \A k \in 1..10 : IF k \in {5, 8} THEN v[k] = "-" ELSE v[k] \in Digits

\* C15: normalize_date returns for every input without raising, and what it
\* returns is the default "0001-01-01" or a string of the form yyyy-mm-dd.
C15_NormalizeDateTotal ==
  call.fn = "normalize_date" =>
    /\ out.kind = "str"
    /\ out.value = DefaultDate \/ WellFormedDate(out.value)

\* the prefix rules a token starts with
PrefixRulesOf(t) ==
  {k \in DOMAIN replacement_dict : StartsWith(t, replacement_dict[k][1])}

\* C16: the extended skill pipeline gives what the base skill pipeline gives,
\* split on ';', with every token that starts with a configured prefix replaced
\* in whole by the replacement of such a prefix and every other token left as
\* it is, joined again per row without repetition; a cell "AMAZON WEB" gives
\* "AWS" and a cell holding "AMAZON WEB" and "AWS" gives "AWS" once.
C16_ExtendedPrefixPass ==
  call.fn = "normalize_skills_series_extra" =>
    /\ \E base \in normalize_skills_series(call.col, call.sep) :
         IF base.kind # "Series" THEN out = base
         ELSE /\ out.kind = "Series"
              /\ Len(out.rows) = Len(base.rows)
              /\ \A j \in DOMAIN base.rows :
                   /\ out.rows[j].index = base.rows[j].index
                   /\ IF base.rows[j].value = NaN THEN out.rows[j].value = NaN
                      ELSE /\ out.rows[j].value # NaN
                           /\ NoRepeat(OutputTokens(out.rows[j].value))
                           /\ \A t \in OutputTokenSet(base.rows[j].value) :
                                IF PrefixRulesOf(t) = {}
                                THEN t \in OutputTokenSet(out.rows[j].value)
                                ELSE \E k \in PrefixRulesOf(t) :
                                       replacement_dict[k][2] \in OutputTokenSet(out.rows[j].value)
                           /\ \A u \in OutputTokenSet(out.rows[j].value) :
                                \E t \in OutputTokenSet(base.rows[j].value) :
                                  IF PrefixRulesOf(t) = {} THEN u = t
                                  ELSE \E k \in PrefixRulesOf(t) : u = replacement_dict[k][2]
    /\ DistinctLabels(call.col) =>
         \A i \in DOMAIN call.col.rows :
           call.col.rows[i].value \in {S_AMAZON_WEB, S_AMAZON_WEB_AWS} =>
             /\ out.kind = "Series"
             /\ OutputAt(out, call.col.rows[i].index) = <<"A","W","S">>

\* the entries of a table listing x, when two of them have different tags
AmbiguousListing(x, mapping) ==
  LET listing == EntriesListing(x, mapping)
  IN IF \E a, b \in listing : mapping[a].replace_by # mapping[b].replace_by
     THEN listing
     ELSE {}

\* C17: a token equal to a variant listed under two different canonical tags
\* of the table given to replace_series is rewritten to the tag of the last,
\* in declaration order, of the entries listing it.
C17_LastAppliedWins ==
  (call.fn = "replace_series" /\ out.kind = "Series") =>
    \A i \in DOMAIN call.col.rows :
      LET mapping == Table(call.table)
          listing == AmbiguousListing(call.col.rows[i].value, mapping)
      IN listing # {} =>
           out.rows[i].value =
             mapping[CHOOSE a \in listing : \A b \in listing : b <= a].replace_by

\* C17 as amended: a token equal to a variant listed under two different
\* canonical tags of the table given to replace_series is rewritten to the tag
\* of the first, in declaration order, of the entries listing it, when no later
\* entry lists that tag as a variant.
C17_FirstAppliedWins ==
  (call.fn = "replace_series" /\ out.kind = "Series") =>
    \A i \in DOMAIN call.col.rows :
      LET mapping == Table(call.table)
          listing == AmbiguousListing(call.col.rows[i].value, mapping)
          f == CHOOSE a \in listing : \A b \in listing : a <= b
      IN ( /\ listing # {}
           /\ \A j \in (f + 1)..Len(mapping) :
                EntriesListing(mapping[f].replace_by, mapping) \cap {j} = {} )
         => out.rows[i].value = mapping[f].replace_by

\* C17 witness: replace_series rewrote MILANO, listed under MILAN and then
\* under IT, to MILAN
C17_Witness ==
  /\ call.fn = "replace_series"
  /\ call.table = "ambiguous"
  /\ out.kind = "Series"
  /\ \E i \in DOMAIN call.col.rows :
       /\ call.col.rows[i].value = S_MILANO
       /\ Cardinality(AmbiguousListing(S_MILANO, Table(call.table))) = 2
       /\ out.rows[i].value = <<"M","I","L","A","N">>

\* C18: in the city pipeline a piece that is a listed variant of a city once
\* its ')', ']' and '?' characters and the whitespace around it are taken away
\* is rewritten to the canonical city of the variant, and a piece that has
\* nothing else than such characters and whitespace gives no token.
C18_CityPunctuationBeforeMatching ==
  ( /\ call.fn = "normalize_city_series"
    /\ out.kind = "Series"
    /\ DistinctLabels(call.col) ) =>
    \A i \in DOMAIN call.col.rows :
      IsStr(call.col.rows[i].value) =>
        LET pieces == Split(call.col.rows[i].value, DelimsOf(call))
            bare(k) == Upper(Strip(RemoveChars(pieces[k], {")", "]", "?"})))
            v == OutputAt(out, call.col.rows[i].index)
        IN \A k \in DOMAIN pieces :
             /\ EntriesListing(bare(k), city_replacement_mapping) # {} =>
                  /\ v # NaN
                  /\ Canonical(bare(k), city_replacement_mapping) \in OutputTokenSet(v)
             /\ (bare(k) = EmptyStr /\ v # NaN) =>
                  \A t \in OutputTokenSet(v) : Strip(t) # EmptyStr

\* the token stream a pipeline call hands to replace_series
BeforeReplace(c) ==
  CASE c.fn = "normalize_city_series" -> city_locations(c.col, DelimsOf(c))
    [] c.fn = "normalize_country_series" -> country_locations(c.col, DelimsOf(c))
    [] OTHER -> skills_exploded(c.col, DelimsOf(c))

\* C19: with the default delimiters of the city, country and skill pipelines,
\* a cell that is exactly a variant listed in the pipeline's table reaches the
\* table as that variant (the split and the punctuation stripping leave it
\* matchable) and is rewritten to the variant's canonical tag.
C19_EveryRuleReachable ==
  ( /\ call.fn \in {"normalize_city_series", "normalize_country_series",
                    "normalize_skills_series"}
    /\ call.sep = NoSep
    /\ out.kind = "Series"
    /\ DistinctLabels(call.col) ) =>
    \A i \in DOMAIN call.col.rows :
      LET x == call.col.rows[i].value
          mapping == TableOf(call.fn)
          tag == Split(Canonical(x, mapping), {";"})
          v == OutputAt(out, call.col.rows[i].index)
      IN (IsStr(x) /\ EntriesListing(x, mapping) # {}) =>
           /\ \E n \in DOMAIN BeforeReplace(call) :
                /\ BeforeReplace(call)[n].index = call.col.rows[i].index
                /\ BeforeReplace(call)[n].value = x
           /\ v # NaN
           /\ OutputTokenSet(v) = {Strip(tag[k]) : k \in DOMAIN tag}

\* C20: every token of every non-null output value of every pipeline, split
\* on ';', is a non-empty string with no whitespace at either end and no
\* lower-case letter.
C20_WellFormedOutputTokens ==
  (call.fn \in Pipelines /\ out.kind = "Series") =>
    \A j \in DOMAIN out.rows :
      out.rows[j].value # NaN =>
        \A t \in OutputTokenSet(out.rows[j].value) :
          /\ t # EmptyStr
          /\ Strip(t) = t
          /\ Upper(t) = t

\* the cleaners clean_all is to run, in order: organizations, candidates,
\* jobs, employment histories, applications
FiveCleaners ==
  <<"clean_organizations", "clean_candidates", "clean_jobs",
    "clean_emp_histories", "clean_applications">>

\* each of them started and finished once, one after the other
SequentialLog ==
  [n \in 1..(2 * Len(FiveCleaners)) |->
     IF n % 2 = 1 THEN Started(FiveCleaners[(n + 1) \div 2])
                  ELSE Finished(FiveCleaners[n \div 2])]

IsPrefix(s, t) ==
  /\ Len(s) <= Len(t)
  /\ \A n \in DOMAIN s : s[n] = t[n]

\* C21: a clean_all call runs the five table cleaners one at a time in the
\* order organizations, candidates, jobs, employment histories,
\* applications, each starting only after the one before it has finished,
\* and a call that returns has run each of the five exactly once.
C21_FiveCleanersOnceInOrder ==
  call.fn = "clean_all" =>
    /\ IsPrefix(log, SequentialLog)
    /\ out = NoneResult => log = SequentialLog

===========================================================================
